---- MODULE Spec2Model ----
(***************************************************************************)
(* A model of SEE, the Sandboxed Execution Environment framework:          *)
(* the Observable event bus (see/observer.py), the SeeContext lifecycle    *)
(* state machine (see/context/context.py), the Environment                 *)
(* (see/environment.py), the hook manager (see/hooks.py) and the           *)
(* resources allocators (see/context/resources).                           *)
(***************************************************************************)
EXTENDS Integers, Sequences, FiniteSets, TLC

(***************************************************************************)
(* Bounds of the model.                                                    *)
(***************************************************************************)
\* number of calls an embedder's thread makes on the Observable
MaxOps == 1

\* the longest timeout, in seconds, the embedder gives to shutdown
MaxTimeout == 1

\* the number of calls the embedder makes on an Environment
MaxEnvOps == 2

\* the number of subscriptions made before the embedder subscribes a handler
\* and unsubscribes it again
MaxSubscribed == 2

\* the most entries the 'hooks' list of a configuration of the hook manager
\* has
MaxHooks == 2

\* the most images of one name the image service lists
MaxImages == 2

\* the most chunks of 8 MiB a downloaded file is read in
MaxChunks == 2

(***************************************************************************)
(* Small helpers on sequences and dictionaries.                            *)
(***************************************************************************)
Last(s) == s[Len(s)]

Front(s) == SubSeq(s, 1, Len(s) - 1)

\* the sequence s with position i taken out
RemoveAt(s, i) == SubSeq(s, 1, i - 1) \o SubSeq(s, i + 1, Len(s))

\* a search that finds nothing
IndexOfNone(s, x) == 0

\* index of the first element of s equal to x, 0 when there is none
IndexOf(s, x) ==
    IF \E i \in 1..Len(s) : s[i] = x
    THEN CHOOSE i \in 1..Len(s) : s[i] = x /\ \A j \in 1..(i - 1) : s[j] # x
    ELSE 0

\* defaultdict(list).__getitem__: a missing key is inserted with an empty list
Touch(d, k) == IF k \in DOMAIN d THEN d ELSE d @@ (k :> <<>>)

\* the list a defaultdict(list) gives for k
Get(d, k) == IF k \in DOMAIN d THEN d[k] ELSE <<>>

\* d with the list of k replaced by l
Put(d, k, l) == [x \in (DOMAIN d) \cup {k} |-> IF x = k THEN l ELSE d[x]]

(***************************************************************************)
(* The Observable: events, handlers, threads.                              *)
(***************************************************************************)
\* threads of the embedder calling into the Observable
Clients == {1, 2}

\* names of the events the embedder and the handlers trigger
Events == {"event1", "cascade", "error_event", "mutate"}

\* exception classes derived from Exception
ExceptionKinds == {"Exception", "ValueError", "KeyError", "RuntimeError",
                   "NotImplementedError", "libvirtError", "AttributeError"}

\* what a handler does when it is called with an event:
\*   rec          returns normally
\*   raise        raises Exception("BOOM!")
\*   trigger      calls context.trigger(ev)
\*   subscribe    calls context.subscribe(ev, h)
\*   unsubscribe  calls context.unsubscribe(ev, h)
Behaviour(h) ==
    CASE h = "handler1"        -> [act |-> "rec", ev |-> "", h |-> ""]
      [] h = "async_handler"   -> [act |-> "rec", ev |-> "", h |-> ""]
      [] h = "error_handler"   -> [act |-> "raise", ev |-> "", h |-> ""]
      [] h = "cascade_handler" -> [act |-> "trigger", ev |-> "event1", h |-> ""]
      [] h = "sub_handler"     -> [act |-> "subscribe", ev |-> "event1",
                                   h |-> "handler1"]
      [] h = "unsub_handler"   -> [act |-> "unsubscribe", ev |-> "event1",
                                   h |-> "handler1"]

Handlers == {"handler1", "async_handler", "error_handler", "cascade_handler",
             "sub_handler", "unsub_handler"}

\* the subscriptions the hooks make in their constructors, in order
HookSubscriptions ==
    << [ev |-> "event1", h |-> "handler1", mode |-> "sync"],
       [ev |-> "event1", h |-> "async_handler", mode |-> "async"],
       [ev |-> "cascade", h |-> "cascade_handler", mode |-> "sync"],
       [ev |-> "cascade", h |-> "cascade_handler", mode |-> "async"],
       [ev |-> "error_event", h |-> "error_handler", mode |-> "sync"],
       [ev |-> "error_event", h |-> "handler1", mode |-> "sync"],
       [ev |-> "error_event", h |-> "error_handler", mode |-> "async"],
       [ev |-> "mutate", h |-> "sub_handler", mode |-> "sync"],
       [ev |-> "mutate", h |-> "unsub_handler", mode |-> "async"] >>

\* the (event, handler) pairs the embedder subscribes and unsubscribes later on
ClientSubscriptions ==
    { [ev |-> "event1", h |-> "handler1"],
      [ev |-> "event1", h |-> "sub_handler"],
      [ev |-> "event1", h |-> "unsub_handler"] }

\* keyword arguments given to trigger
Payloads == {"none", "foo"}

VARIABLES
    sync_handlers,   \* Handlers.sync_handlers: event -> list of handlers
    async_handlers,  \* Handlers.async_handlers: event -> list of handlers
    sync_stamps,     \* history: for each entry of sync_handlers, the rank of
                     \* the subscribe call that put it there
    clock,           \* history: number of subscribe calls so far
    trigger_mutex,   \* Handlers.trigger_mutex, an RLock: owner and depth
    stack,           \* per thread, its call stack (innermost frame last)
    exc,             \* per thread, the exception being raised, or "none"
    opsLeft,         \* per embedder thread, the calls it has still to make
    disp,            \* history: per call of trigger, what it delivered
    lastRet,         \* history: per embedder thread, how its last call ended
    domState,        \* SeeContext.domain.state()[0]: the state of the domain
    cmds,            \* history: per call of a lifecycle verb, what was observed
    scenario,        \* the context factory and the configurations of a run
    env_context,     \* Environment._context
    env_hookmanager, \* Environment._hookmanager
    world,           \* what exists outside the process: connections, domains,
                     \* networks, pools, volumes, directories
    envPc,           \* the statement the Environment is at, "idle" between calls
    envCall,         \* the call of the embedder the Environment is running
    envOps,          \* the calls the embedder has still to make
    scope,           \* where the embedder is in its with statement
    envState,        \* history: new, allocated, failed or deallocated
    envRet,          \* history: how the last call on the Environment ended
    factoryLog,      \* history: the last call of the context factory
    cleanLog,        \* history: the cleanup calls of the last deallocate
    created,         \* history: what the allocation in force has created
    roundTrip        \* history: the lists of handlers before the embedder's
                     \* last subscribe, and whether the same pair was then
                     \* unsubscribed

busVars == <<sync_handlers, async_handlers, sync_stamps, clock, trigger_mutex,
             stack, exc, opsLeft, disp, lastRet>>

\* the variables neither the Observable nor the history of the verbs owns
envVars == <<scenario, env_context, env_hookmanager, world, envPc, envCall,
             envOps, scope, envState, envRet, factoryLog, cleanLog, created>>

restVars == <<domState, envVars, roundTrip>>

vars == <<busVars, cmds, restVars>>

(***************************************************************************)
(* Frames of the call stacks.                                              *)
(***************************************************************************)
Frame(kind, ev, pay, h, pc, idx, id, mode) ==
    [kind |-> kind, ev |-> ev, pay |-> pay, h |-> h, pc |-> pc, idx |-> idx,
     id |-> id, mode |-> mode]

\* a call of Observable.trigger(event, **kwargs), the id-th of the run
TriggerFrame(ev, pay, id) == Frame("trigger", ev, pay, "", "acquire", 0, id, "")

\* a call of synchronous(function, event) made by the dispatch id
SynchronousFrame(h, ev, pay, id, st, mode) ==
    Frame("synchronous", ev, pay, h, "call", st, id, mode)

\* a call of Observable.unsubscribe(event, handler)
UnsubscribeFrame(ev, h) == Frame("unsubscribe", ev, "none", h, "sync", 0, 0, "")

Top(t) == Last(stack[t])

Busy(t) == stack[t] # <<>>

Threads == 1..Len(stack)

Push(st, t, f) == [st EXCEPT ![t] = Append(@, f)]

Pop(st, t) == [st EXCEPT ![t] = Front(@)]

\* the top frame of t replaced by f
Replace(st, t, f) == [st EXCEPT ![t] = Append(Front(@), f)]

(***************************************************************************)
(* History of the dispatches.                                              *)
(***************************************************************************)
\* a trigger call that has just been made by thread t (for the cmd-th call
\* of a lifecycle verb, or 0): how it returned, the lists of handlers it
\* found, the synchronous handlers it called, the number of threads it
\* started and the asynchronous handlers that were called
Dispatch(t, ev, pay, cmd) ==
    [t |-> t, ev |-> ev, pay |-> pay, cmd |-> cmd, ret |-> "pending",
     asnap |-> <<>>, snap |-> <<>>, dlv |-> <<>>, nasync |-> 0, adlv |-> <<>>]

\* a handler called by a dispatch: which, its registration rank, the thread
\* it runs on and how it ended ("run" while it runs)
Delivery(h, st, t, x) == [h |-> h, st |-> st, t |-> t, x |-> x]

\* the handler f is called
Delivered(d, f, t, x) ==
    IF f.mode = "sync"
    THEN [d EXCEPT ![f.id].dlv = Append(@, Delivery(f.h, f.idx, t, x))]
    ELSE [d EXCEPT ![f.id].adlv = Append(@, f.h)]

\* the handler f has ended with x
Ended(d, f, x) ==
    IF f.mode = "sync"
    THEN [d EXCEPT ![f.id].dlv = [@ EXCEPT ![Len(@)].x = x]]
    ELSE d

\* how the call of an embedder's thread ended
Returned(t, f, x) ==
    IF Len(stack[t]) = 1 /\ t \in Clients
    THEN [lastRet EXCEPT ![t] = [op |-> f.kind, ev |-> f.ev, h |-> f.h, x |-> x]]
    ELSE lastRet

(***************************************************************************)
(* The domain of a SeeContext and its lifecycle verbs.                     *)
(***************************************************************************)
NOSTATE == 0

RUNNING == 1

BLOCKED == 2

PAUSED == 3

SHUTDOWN == 4

SHUTOFF == 5

CRASHED == 6

SUSPENDED == 7

DomainStates == {NOSTATE, RUNNING, BLOCKED, PAUSED, SHUTDOWN, SHUTOFF, CRASHED,
                 SUSPENDED}

\* the lifecycle verbs of SeeContext, by the name they give to _command
VerbSeq == <<"poweron", "resume", "pause", "poweroff", "shutdown", "restart">>

Verbs == {VerbSeq[i] : i \in 1..Len(VerbSeq)}

\* the characters of a str
Chars(s) ==
    CASE s = "poweron"  -> <<"p", "o", "w", "e", "r", "o", "n">>
      [] s = "resume"   -> <<"r", "e", "s", "u", "m", "e">>
      [] s = "pause"    -> <<"p", "a", "u", "s", "e">>
      [] s = "poweroff" -> <<"p", "o", "w", "e", "r", "o", "f", "f">>
      [] s = "shutdown" -> <<"s", "h", "u", "t", "d", "o", "w", "n">>
      [] s = "restart"  -> <<"r", "e", "s", "t", "a", "r", "t">>

\* a in b, for two str: a is a substring of b
StrIn(a, b) ==
    \E i \in 0..(Len(b) - Len(a)) : SubSeq(b, i + 1, i + Len(a)) = a

\* a tuple of str
Tuple(items) == [tuple |-> TRUE, items |-> items, str |-> ""]

\* a str in parentheses is a str
Str(s) == [tuple |-> FALSE, items |-> <<>>, str |-> s]

\* a transition map giving every verb to every state
STATES_MAP_Any == [st \in DomainStates |-> Tuple(VerbSeq)]

STATES_MAP ==
    (NOSTATE :> Tuple(<<>>))
    @@ (RUNNING :> Tuple(<<"pause", "poweroff", "forced_poweroff", "restart",
                           "shutdown">>))
    @@ (BLOCKED :> Tuple(<<>>))
    @@ (PAUSED :> Tuple(<<"resume", "forced_poweroff">>))
    @@ (SHUTDOWN :> Str("poweron"))
    @@ (SHUTOFF :> Str("poweron"))
    @@ (CRASHED :> Str("poweron"))
    @@ (SUSPENDED :> Str("resume"))

\* event in STATES_MAP[state]: membership in a tuple, substring of a str
In(event, c) ==
    IF c.tuple
    THEN \E i \in 1..Len(c.items) : c.items[i] = event
    ELSE StrIn(Chars(event), Chars(c.str))

\* prefix % event, for a prefix that ends with %s
Format(prefix, event) == prefix \o Chars(event)

\* 'pre_%s' % event
PreEvent(verb) == Format(<<"p", "r", "e", "_">>, verb)

\* the event of before the command, triggered after it too
PostEventIsPre(verb) == Format(<<"p", "r", "e", "_">>, verb)

\* 'post_%s' % event
PostEvent(verb) == Format(<<"p", "o", "s", "t", "_">>, verb)

\* the method of the domain a verb calls
Command(verb) ==
    CASE verb = "poweron"  -> "create"
      [] verb = "resume"   -> "resume"
      [] verb = "pause"    -> "suspend"
      [] verb = "poweroff" -> "destroy"
      [] verb = "shutdown" -> "shutdown"
      [] verb = "restart"  -> "reboot"

\* the state of the domain after the method succeeded; a shutdown is only
\* a request to the guest
DomainAfter(op, st) ==
    CASE op = "create"   -> RUNNING
      [] op = "resume"   -> RUNNING
      [] op = "suspend"  -> PAUSED
      [] op = "destroy"  -> SHUTOFF
      [] op = "shutdown" -> st
      [] op = "reboot"   -> RUNNING

\* range(timeout * 10): the polls of a second
PollsPerSecond == 10

\* shutdown(timeout=None)
NoTimeout == [given |-> FALSE, s |-> 0]

\* the timeouts the embedder gives to shutdown
Timeouts == {NoTimeout} \cup {[given |-> TRUE, s |-> n] : n \in 0..MaxTimeout}

\* a call of a lifecycle verb that waits without a timeout
CommandFrameForever(verb, pay, tmo, id) ==
    Frame("command", verb, pay, "", "assert", 0, id, "forever")

\* a call of a lifecycle verb that takes no timeout for zero seconds
CommandFrameTimed(verb, pay, tmo, id) ==
    Frame("command", verb, pay, "", "assert", tmo.s * PollsPerSecond, id, "timed")

\* a call of a lifecycle verb, the id-th of the run
CommandFrame(verb, pay, tmo, id) ==
    Frame("command", verb, pay, "", "assert", tmo.s * PollsPerSecond, id,
          IF tmo.given THEN "timed" ELSE "forever")

\* the hooks of a Context observing its lifecycle: for every verb a raising
\* synchronous handler, a recording one and an asynchronous one on pre_*, a
\* recording one on post_*
RECURSIVE LifecycleSubscriptions(_)
LifecycleSubscriptions(vs) ==
    IF vs = <<>> THEN <<>>
    ELSE LifecycleSubscriptions(Front(vs)) \o
         << [ev |-> PreEvent(Last(vs)), h |-> "error_handler", mode |-> "sync"],
            [ev |-> PreEvent(Last(vs)), h |-> "handler1", mode |-> "sync"],
            [ev |-> PreEvent(Last(vs)), h |-> "async_handler", mode |-> "async"],
            [ev |-> PostEvent(Last(vs)), h |-> "handler1", mode |-> "sync"] >>

(***************************************************************************)
(* History of the lifecycle verbs.                                         *)
(***************************************************************************)
\* a call of a verb by thread t: the state it found, how the method of the
\* domain and the wait ended, what the recording handler and the domain
\* saw, in order, and how the call ended
Invocation(t, verb, pay, tmo) ==
    [t |-> t, verb |-> verb, pay |-> pay, timeout |-> tmo, asserted |-> FALSE,
     st |-> NOSTATE, op |-> "none", wait |-> "none", trace |-> <<>>,
     ret |-> "pending"]

\* an event seen by the recording handler, or a method seen by the domain
Seen(e, op, pay) == [e |-> e, op |-> op, pay |-> pay]

\* the recording handler of a verb's dispatch is called with the event
Observed(c, d, f) ==
    IF f.mode = "sync" /\ d[f.id].cmd > 0
    THEN [c EXCEPT ![d[f.id].cmd].trace = Append(@, Seen(f.ev, "", f.pay))]
    ELSE c

(***************************************************************************)
(* The trigger lock: threading.RLock.                                      *)
(***************************************************************************)
\* a non re-entrant lock
LockCanAcquire(t) == trigger_mutex.owner = 0

\* a lock that never makes its caller wait
NoLock(t) == TRUE

\* RLock.acquire does not block when the lock is free or owned by the caller
CanAcquire(t) == trigger_mutex.owner = 0 \/ trigger_mutex.owner = t

Acquired(t) == [owner |-> t, count |-> trigger_mutex.count + 1]

Released ==
    IF trigger_mutex.count = 1
    THEN [owner |-> 0, count |-> 0]
    ELSE [trigger_mutex EXCEPT !.count = @ - 1]

(***************************************************************************)
(* Observable.subscribe, subscribe_async.                                  *)
(***************************************************************************)
\* list.append of the handler at the wrong end
SubscribeFirst(d, ev, h) == Put(d, ev, <<h>> \o Get(d, ev))

\* self._handlers.sync_handlers[event].append(handler)
SubscribeTo(d, ev, h) == Put(d, ev, Append(Get(d, ev), h))

\* the state of the maps after the hooks' constructors ran
RECURSIVE Subscribed(_, _, _)
Subscribed(subs, mode, stamps) ==
    IF subs = <<>> THEN <<>>
    ELSE LET s == Last(subs)
             rest == Subscribed(Front(subs), mode, stamps)
         IN IF s.mode = mode
            THEN SubscribeTo(rest, s.ev, IF stamps THEN Len(subs) ELSE s.h)
            ELSE rest

\* Observable.subscribe(event, handler)
Subscribe(ev, h) ==
    /\ sync_handlers' = SubscribeTo(sync_handlers, ev, h)
    /\ sync_stamps' = SubscribeTo(sync_stamps, ev, clock + 1)
    /\ clock' = clock + 1
    /\ UNCHANGED async_handlers

\* Observable.subscribe_async(event, handler)
SubscribeAsync(ev, h) ==
    /\ async_handlers' = SubscribeTo(async_handlers, ev, h)
    /\ clock' = clock + 1
    /\ UNCHANGED <<sync_handlers, sync_stamps>>

MapsUnchanged ==
    UNCHANGED <<sync_handlers, async_handlers, sync_stamps, clock>>

(***************************************************************************)
(* Initial state: the Observable of a Context whose hooks are loaded.      *)
(***************************************************************************)
NoReturn == [op |-> "", ev |-> "", h |-> "", x |-> ""]

\* the embedder's last call was no subscribe
NoRoundTrip ==
    [phase |-> "none", ev |-> "", h |-> "", sync |-> <<>>, async |-> <<>>,
     t |-> 0]

\* the embedder calls subscribe or subscribe_async with the pair s: the maps
\* as they are before the call
SubscribeCalled(s) ==
    [phase |-> "subscribed", ev |-> s.ev, h |-> s.h, sync |-> sync_handlers,
     async |-> async_handlers, t |-> 0]

\* the thread t of the embedder calls unsubscribe with the pair s, the pair
\* of the subscribe just before or not
UnsubscribeCalled(t, s) ==
    IF roundTrip.phase = "subscribed" /\ roundTrip.ev = s.ev
                                      /\ roundTrip.h = s.h
    THEN [roundTrip EXCEPT !.phase = "unsubscribed", !.t = t]
    ELSE NoRoundTrip

\* the Observable after the hooks' constructors made the subscriptions subs
HooksLoaded(subs) ==
    /\ sync_handlers = Subscribed(subs, "sync", FALSE)
    /\ async_handlers = Subscribed(subs, "async", FALSE)
    /\ sync_stamps = Subscribed(subs, "sync", TRUE)
    /\ clock = Len(subs)

\* no thread is in a call
ThreadsInit ==
    /\ roundTrip = NoRoundTrip
    /\ trigger_mutex = [owner |-> 0, count |-> 0]
    /\ stack = << <<>>, <<>> >>
    /\ exc = <<"none", "none">>
    /\ disp = <<>>
    /\ lastRet = <<NoReturn, NoReturn>>

BusInit == HooksLoaded(HookSubscriptions) /\ ThreadsInit

(***************************************************************************)
(* Calls of the embedder's threads.                                        *)
(***************************************************************************)
CanCall(t) == t \in Clients /\ ~Busy(t) /\ opsLeft[t] > 0

Called(t) == opsLeft' = [opsLeft EXCEPT ![t] = @ - 1]

\* the embedder calls context.subscribe(ev, h)
CallSubscribe(t, s) ==
    /\ CanCall(t)
    /\ UNCHANGED <<cmds, domState, envVars>>
    /\ roundTrip' = SubscribeCalled(s)
    /\ Subscribe(s.ev, s.h)
    /\ Called(t)
    /\ UNCHANGED <<trigger_mutex, stack, exc, disp, lastRet>>

\* the embedder calls context.subscribe_async(ev, h)
CallSubscribeAsync(t, s) ==
    /\ CanCall(t)
    /\ UNCHANGED <<cmds, domState, envVars>>
    /\ roundTrip' = SubscribeCalled(s)
    /\ SubscribeAsync(s.ev, s.h)
    /\ Called(t)
    /\ UNCHANGED <<trigger_mutex, stack, exc, disp, lastRet>>

\* the embedder calls context.unsubscribe(ev, h)
CallUnsubscribe(t, s) ==
    /\ CanCall(t)
    /\ UNCHANGED <<cmds, domState, envVars>>
    /\ roundTrip' = UnsubscribeCalled(t, s)
    /\ stack' = Push(stack, t, UnsubscribeFrame(s.ev, s.h))
    /\ Called(t)
    /\ MapsUnchanged
    /\ UNCHANGED <<trigger_mutex, exc, disp, lastRet>>

\* the embedder calls context.trigger(ev, **pay)
CallTrigger(t, ev, pay) ==
    /\ CanCall(t)
    /\ UNCHANGED <<cmds, domState, envVars>>
    /\ roundTrip' = NoRoundTrip
    /\ stack' = Push(stack, t, TriggerFrame(ev, pay, Len(disp) + 1))
    /\ disp' = Append(disp, Dispatch(t, ev, pay, 0))
    /\ Called(t)
    /\ MapsUnchanged
    /\ UNCHANGED <<trigger_mutex, exc, lastRet>>

(***************************************************************************)
(* Observable.unsubscribe, statement by statement.                         *)
(***************************************************************************)
\* a remove that removes nothing
ListKeep(l, h) == l

\* list.remove(handler): the list without the first entry equal to h
ListRemove(l, h) == RemoveAt(l, IndexOf(l, h))

\* every ValueError of the second remove is passed over
RemovePasses(pc) == FALSE

\* the ValueError of the second remove leaves unsubscribe when the remove is
\* the one of the except clause; the try of the else clause passes over it
RemoveRaises(pc) == pc = "except"

Unsubscribe(t) ==
    LET f == Top(t)
        i == IndexOf(Get(sync_handlers, f.ev), f.h)
        j == IndexOf(Get(async_handlers, f.ev), f.h)
    IN
    /\ Busy(t) /\ exc[t] = "none" /\ f.kind = "unsubscribe"
    /\ UNCHANGED <<cmds, restVars>>
    /\ UNCHANGED <<trigger_mutex, opsLeft, disp>>
    /\ IF f.pc = "sync"
       THEN \* try: self._handlers.sync_handlers[event].remove(handler)
            /\ sync_handlers' =
                   IF i > 0
                   THEN Put(sync_handlers, f.ev,
                            ListRemove(sync_handlers[f.ev], f.h))
                   ELSE Touch(sync_handlers, f.ev)
            /\ sync_stamps' =
                   IF i > 0
                   THEN Put(sync_stamps, f.ev, RemoveAt(sync_stamps[f.ev], i))
                   ELSE Touch(sync_stamps, f.ev)
            /\ stack' = Replace(stack, t, [f EXCEPT !.pc =
                                             IF i > 0 THEN "else" ELSE "except"])
            /\ UNCHANGED <<async_handlers, clock, exc, lastRet>>
       ELSE \* self._handlers.async_handlers[event].remove(handler)
            /\ async_handlers' =
                   IF j > 0
                   THEN Put(async_handlers, f.ev,
                            ListRemove(async_handlers[f.ev], f.h))
                   ELSE Touch(async_handlers, f.ev)
            /\ UNCHANGED <<sync_handlers, sync_stamps, clock>>
            /\ IF j = 0 /\ RemoveRaises(f.pc)
               THEN \* the ValueError of the second remove leaves unsubscribe
                    /\ exc' = [exc EXCEPT ![t] = "ValueError"]
                    /\ UNCHANGED <<stack, lastRet>>
               ELSE \* removed, or the else branch passing on ValueError
                    /\ stack' = Pop(stack, t)
                    /\ lastRet' = Returned(t, f, "none")
                    /\ UNCHANGED exc

(***************************************************************************)
(* Observable.trigger, statement by statement.                             *)
(***************************************************************************)
\* see.events.Event(name, source=..., **kwargs)
Event(name, source, pay) == [name |-> name, source |-> source, pay |-> pay]

\* the key an Event is in the dictionaries of handlers: its name
EventKey(e) == e.name

\* prime_event(event, source, **kwargs), called with the name of an event
prime_event(ev, source, pay) == Event(ev, source, pay)

\* with self._handlers.trigger_mutex: the lock is taken, the event primed and
\* the list of the asynchronous handlers looked up
TriggerAcquire(t) ==
    LET f == Top(t)
        e == prime_event(f.ev, "SeeContext", f.pay)
        k == EventKey(e)
    IN
    /\ Busy(t) /\ exc[t] = "none" /\ f.kind = "trigger" /\ f.pc = "acquire"
    /\ UNCHANGED <<cmds, restVars>>
    /\ CanAcquire(t)
    /\ trigger_mutex' = Acquired(t)
    /\ async_handlers' = Touch(async_handlers, k)
    /\ stack' = Replace(stack, t, [f EXCEPT !.pc = "async", !.idx = 1,
                                           !.ev = k, !.pay = e.pay])
    /\ disp' = [disp EXCEPT ![f.id].asnap = Get(async_handlers, k)]
    /\ UNCHANGED <<sync_handlers, sync_stamps, clock, exc, opsLeft, lastRet>>

\* asynchronous(function, event): a daemon thread running
\* synchronous(function, event) is started
Asynchronous(st, h, ev, pay, id) ==
    Append(st, <<SynchronousFrame(h, ev, pay, id, 0, "async")>>)

\* for handler in self._handlers.async_handlers[event]: asynchronous(...)
TriggerAsync(t) ==
    LET f == Top(t)
        l == async_handlers[f.ev]
    IN
    /\ Busy(t) /\ exc[t] = "none" /\ f.kind = "trigger" /\ f.pc = "async"
    /\ UNCHANGED <<cmds, restVars>>
    /\ UNCHANGED <<trigger_mutex, async_handlers, sync_stamps, clock, opsLeft,
                   lastRet>>
    /\ IF f.idx <= Len(l)
       THEN /\ stack' = Asynchronous(Replace(stack, t, [f EXCEPT !.idx = @ + 1]),
                                     l[f.idx], f.ev, f.pay, f.id)
            /\ exc' = Append(exc, "none")
            /\ disp' = [disp EXCEPT ![f.id].nasync = @ + 1]
            /\ UNCHANGED sync_handlers
       ELSE \* the loop over the synchronous handlers begins
            /\ stack' = Replace(stack, t, [f EXCEPT !.pc = "sync", !.idx = 1])
            /\ sync_handlers' = Touch(sync_handlers, f.ev)
            /\ disp' = [disp EXCEPT ![f.id].snap = Get(sync_handlers, f.ev)]
            /\ UNCHANGED exc

\* for handler in self._handlers.sync_handlers[event]: synchronous(...)
TriggerSync(t) ==
    LET f == Top(t)
        l == Get(sync_handlers, f.ev)
    IN
    /\ Busy(t) /\ exc[t] = "none" /\ f.kind = "trigger" /\ f.pc = "sync"
    /\ UNCHANGED <<cmds, restVars>>
    /\ MapsUnchanged
    /\ UNCHANGED <<exc, opsLeft, lastRet>>
    /\ IF f.idx <= Len(l)
       THEN /\ stack' = Push(Replace(stack, t, [f EXCEPT !.idx = @ + 1]), t,
                             SynchronousFrame(l[f.idx], f.ev, f.pay, f.id,
                                              Get(sync_stamps, f.ev)[f.idx],
                                              "sync"))
            /\ UNCHANGED <<trigger_mutex, disp>>
       ELSE \* the loop is over: the lock is released and trigger returns
            /\ trigger_mutex' = Released
            /\ stack' = Pop(stack, t)
            /\ disp' = [disp EXCEPT ![f.id].ret = "none"]

(***************************************************************************)
(* synchronous(function, event): the handler is called, its exceptions     *)
(* are caught and logged.                                                  *)
(***************************************************************************)
\* an except clause that catches nothing
ExceptNothing(e) == FALSE

\* except Exception as error
SynchronousExcept(e) == e \in ExceptionKinds

Synchronous(t) ==
    LET f == Top(t)
        b == Behaviour(f.h)
        after == [f EXCEPT !.pc = "after"]
    IN
    /\ Busy(t) /\ exc[t] = "none" /\ f.kind = "synchronous"
    /\ UNCHANGED restVars
    /\ cmds' = IF f.pc # "after" /\ b.act = "rec"
               THEN Observed(cmds, disp, f) ELSE cmds
    /\ UNCHANGED <<trigger_mutex, opsLeft, lastRet>>
    /\ IF f.pc = "after"
       THEN \* function(event) returned
            /\ stack' = Pop(stack, t)
            /\ disp' = Ended(disp, f, "none")
            /\ MapsUnchanged
            /\ UNCHANGED exc
       ELSE \* function(event)
            CASE b.act = "rec" ->
                   /\ stack' = Pop(stack, t)
                   /\ disp' = Delivered(disp, f, t, "none")
                   /\ MapsUnchanged
                   /\ UNCHANGED exc
              [] b.act = "raise" ->
                   /\ stack' = Replace(stack, t, after)
                   /\ exc' = [exc EXCEPT ![t] = "Exception"]
                   /\ disp' = Delivered(disp, f, t, "run")
                   /\ MapsUnchanged
              [] b.act = "trigger" ->
                   /\ stack' = Push(Replace(stack, t, after), t,
                                    TriggerFrame(b.ev, "none", Len(disp) + 1))
                   /\ disp' = Append(Delivered(disp, f, t, "run"),
                                     Dispatch(t, b.ev, "none", 0))
                   /\ MapsUnchanged
                   /\ UNCHANGED exc
              [] b.act = "subscribe" ->
                   /\ stack' = Replace(stack, t, after)
                   /\ Subscribe(b.ev, b.h)
                   /\ disp' = Delivered(disp, f, t, "run")
                   /\ UNCHANGED exc
              [] b.act = "unsubscribe" ->
                   /\ stack' = Push(Replace(stack, t, after), t,
                                    UnsubscribeFrame(b.ev, b.h))
                   /\ disp' = Delivered(disp, f, t, "run")
                   /\ MapsUnchanged
                   /\ UNCHANGED exc

(***************************************************************************)
(* An exception leaving a frame.                                           *)
(***************************************************************************)
Unwind(t) ==
    LET f == Top(t)
        e == exc[t]
    IN
    /\ Busy(t) /\ e # "none"
    /\ UNCHANGED restVars
    /\ MapsUnchanged
    /\ UNCHANGED opsLeft
    /\ stack' = Pop(stack, t)
    /\ IF f.kind = "synchronous" /\ SynchronousExcept(e)
       THEN \* logger.exception(error); synchronous returns
            /\ exc' = [exc EXCEPT ![t] = "none"]
            /\ disp' = Ended(disp, f, e)
            /\ UNCHANGED <<trigger_mutex, lastRet, cmds>>
       ELSE \* the exception goes on to the caller; a with block releases
            \* its lock on the way; the thread's outermost frame ends the call
            /\ exc' = [exc EXCEPT ![t] = IF Len(stack[t]) = 1 THEN "none" ELSE e]
            /\ trigger_mutex' = IF f.kind = "trigger" /\ f.pc # "acquire"
                                THEN Released ELSE trigger_mutex
            /\ disp' = IF f.kind = "trigger"
                       THEN [disp EXCEPT ![f.id].ret = e]
                       ELSE disp
            /\ lastRet' = Returned(t, f, e)
            /\ cmds' = IF f.kind = "command"
                       THEN [cmds EXCEPT ![f.id].ret = e]
                       ELSE cmds

(***************************************************************************)
(* SeeContext: the lifecycle verbs, statement by statement.                *)
(***************************************************************************)
\* the embedder calls context.<verb>(**pay), shutdown with a timeout
CallVerb(t, verb, pay, tmo) ==
    /\ CanCall(t)
    /\ verb # "shutdown" => tmo = NoTimeout
    /\ stack' = Push(stack, t, CommandFrame(verb, pay, tmo, Len(cmds) + 1))
    /\ cmds' = Append(cmds, Invocation(t, verb, pay, tmo))
    /\ Called(t)
    /\ MapsUnchanged
    /\ UNCHANGED <<trigger_mutex, exc, disp, lastRet, restVars>>

\* a verb that passes no keyword arguments on
NoKwargs(f) == "none"

\* the keyword arguments a verb passes on to trigger
CommandKwargs(f) == f.pay

\* self.trigger(name, **kwargs) called by the verb of frame f, which goes on
\* at pc when trigger has returned
CommandTrigger(t, f, name, pc) ==
    /\ stack' = Push(Replace(stack, t, [f EXCEPT !.pc = pc]), t,
                     TriggerFrame(name, CommandKwargs(f), Len(disp) + 1))
    /\ disp' = Append(disp, Dispatch(t, name, CommandKwargs(f), f.id))

\* self._assert_transition(event); self.trigger('pre_%s' % event, **kwargs)
AssertTransition(t) ==
    LET f == Top(t) IN
    /\ Busy(t) /\ exc[t] = "none" /\ f.kind = "command" /\ f.pc = "assert"
    /\ cmds' = [cmds EXCEPT ![f.id].asserted = TRUE, ![f.id].st = domState]
    /\ IF In(f.ev, STATES_MAP[domState])
       THEN /\ CommandTrigger(t, f, PreEvent(f.ev), "pre")
            /\ UNCHANGED exc
       ELSE \* raise RuntimeError("State transition %s not allowed" % event)
            /\ exc' = [exc EXCEPT ![t] = "RuntimeError"]
            /\ UNCHANGED <<stack, disp>>
    /\ MapsUnchanged
    /\ UNCHANGED <<trigger_mutex, opsLeft, lastRet, restVars>>

\* a method of the domain whose failure is not looked at
ExecuteNeverRaises(ok) == FALSE

\* command(*args) raised libvirtError: _execute_command raises RuntimeError
ExecuteRaises(ok) == ~ok

\* self._execute_command(command, *args), then the trigger of post_* or,
\* for shutdown, the wait; the method of the domain succeeds or raises
\* libvirtError, which leaves _execute_command as a RuntimeError
ExecuteCommand(t) ==
    LET f == Top(t)
        op == Command(f.ev)
    IN
    /\ Busy(t) /\ exc[t] = "none" /\ f.kind = "command" /\ f.pc = "pre"
    /\ MapsUnchanged
    /\ UNCHANGED <<trigger_mutex, opsLeft, lastRet, envVars, roundTrip>>
    /\ \E ok \in BOOLEAN :
        /\ cmds' = [cmds EXCEPT
                       ![f.id].op = IF ok THEN "ok" ELSE "libvirtError",
                       ![f.id].trace = Append(@, Seen(<<>>, op, "none"))]
        /\ IF ~ExecuteRaises(ok)
           THEN /\ domState' = DomainAfter(op, domState)
                /\ UNCHANGED exc
                /\ IF f.ev = "shutdown"
                   THEN /\ stack' = Replace(stack, t, [f EXCEPT !.pc = "wait"])
                        /\ UNCHANGED disp
                   ELSE CommandTrigger(t, f, PostEvent(f.ev), "post")
           ELSE /\ exc' = [exc EXCEPT ![t] = "RuntimeError"]
                /\ UNCHANGED <<stack, disp, domState>>

\* self._wait_for_shutdown(timeout), one poll of the state at a time, then
\* self.trigger('post_shutdown', **kwargs)
WaitForShutdown(t) ==
    LET f == Top(t) IN
    /\ Busy(t) /\ exc[t] = "none" /\ f.kind = "command" /\ f.pc = "wait"
    /\ MapsUnchanged
    /\ UNCHANGED <<trigger_mutex, opsLeft, lastRet, restVars>>
    /\ IF f.mode = "timed"
       THEN IF f.idx = 0
            THEN \* the else of the for: raise RuntimeError
                 /\ exc' = [exc EXCEPT ![t] = "RuntimeError"]
                 /\ cmds' = [cmds EXCEPT ![f.id].wait = "timeout"]
                 /\ UNCHANGED <<stack, disp>>
            ELSE IF domState = SHUTOFF
                 THEN \* break
                      /\ CommandTrigger(t, f, PostEvent(f.ev), "post")
                      /\ cmds' = [cmds EXCEPT ![f.id].wait = "shutoff"]
                      /\ UNCHANGED exc
                 ELSE \* time.sleep(0.1)
                      /\ stack' = Replace(stack, t, [f EXCEPT !.idx = @ - 1])
                      /\ UNCHANGED <<exc, disp, cmds>>
       ELSE \* while self.domain.state()[0] != SHUTOFF: time.sleep(0.1)
            /\ domState = SHUTOFF
            /\ CommandTrigger(t, f, PostEvent(f.ev), "post")
            /\ cmds' = [cmds EXCEPT ![f.id].wait = "shutoff"]
            /\ UNCHANGED exc

\* the trigger of post_* has returned: the verb returns
CommandReturn(t) ==
    LET f == Top(t) IN
    /\ Busy(t) /\ exc[t] = "none" /\ f.kind = "command" /\ f.pc = "post"
    /\ stack' = Pop(stack, t)
    /\ cmds' = [cmds EXCEPT ![f.id].ret = "none"]
    /\ lastRet' = Returned(t, f, "none")
    /\ MapsUnchanged
    /\ UNCHANGED <<trigger_mutex, exc, opsLeft, disp, restVars>>

\* the guest powers itself off, asked to or not
GuestHalts ==
    /\ domState = RUNNING
    /\ domState' = SHUTOFF
    /\ UNCHANGED <<busVars, cmds, envVars, roundTrip>>

(***************************************************************************)
(* The Resources of a Context, the world outside and the exceptions.       *)
(***************************************************************************)
\* an exception: its class and the call that raised it
Exc(kind, at) == [kind |-> kind, at |-> at]

NoExc == Exc("none", "")

\* the classes of Resources and of Context the factories build
ResourcesClasses == {"QEMU", "LXC", "VBox"}

\* a Resources object after __init__: every handle is None
Resources(class) ==
    [class |-> class, hypervisor |-> FALSE, domain |-> FALSE, network |-> FALSE,
     storage_pool |-> FALSE]

\* the result of a step on the Resources r and the world w
Outcome(r, w, e) == [r |-> r, w |-> w, exc |-> e]

\* the configurations of the Resources: 'network' in configuration, 'clone'
\* in configuration['disk'], a domain XML naming an existing network, and
\* 'filesystem' in the configuration of the domain
ResourcesConfigurations ==
    [network : BOOLEAN, clone : BOOLEAN, attached : BOOLEAN,
     filesystem : BOOLEAN]

\* the keys each class of Resources reads; the others are left out
ConfigurationsOf(class) ==
    {cfg \in ResourcesConfigurations :
        /\ class # "QEMU" => ~cfg.clone /\ ~cfg.attached
        /\ cfg.network => ~cfg.attached
        /\ class # "LXC" => ~cfg.filesystem
        /\ class \notin {"QEMU", "LXC"} => ~cfg.network}

\* the calls of QEMUResources.allocate that may raise, in order
QEMUAllocateSteps ==
    <<"open", "pool", "network", "disk", "refresh", "domain", "lookup">>

\* one statement of QEMUResources.allocate; fail: its call to libvirt fails
QEMUAllocateStep(name, r, w, cfg, fail) ==
    CASE name = "open" ->
           \* self._hypervisor = libvirt.open(...)
           IF fail THEN Outcome(r, w, Exc("libvirtError", name))
           ELSE Outcome([r EXCEPT !.hypervisor = TRUE],
                        w \cup {"connection"}, NoExc)
      [] name = "pool" ->
           \* self._storage_pool = self._retrieve_pool()
           IF cfg.clone
           THEN \* pool_create: os.makedirs(path), then storagePoolCreateXML
                IF fail
                THEN Outcome(r, w \cup {"dir"}, Exc("libvirtError", name))
                ELSE Outcome([r EXCEPT !.storage_pool = TRUE],
                             w \cup {"dir", "pool"}, NoExc)
           ELSE \* pool_lookup returns None on libvirtError
                Outcome([r EXCEPT !.storage_pool = ~fail], w, NoExc)
      [] name = "network" ->
           \* if 'network' in self.configuration: network.create(...)
           IF ~cfg.network THEN Outcome(r, w, NoExc)
           ELSE IF fail THEN Outcome(r, w, Exc("RuntimeError", name))
           ELSE Outcome([r EXCEPT !.network = TRUE], w \cup {"network"}, NoExc)
      [] name = "disk" ->
           \* disk_path = self._retrieve_disk_path()
           IF ~cfg.clone THEN Outcome(r, w, NoExc)
           ELSE IF fail THEN Outcome(r, w, Exc("libvirtError", name))
           ELSE Outcome(r, w \cup {"volume"}, NoExc)
      [] name = "refresh" ->
           \* if self._storage_pool is not None: self._storage_pool.refresh()
           IF r.storage_pool /\ fail
           THEN Outcome(r, w, Exc("libvirtError", name))
           ELSE Outcome(r, w, NoExc)
      [] name = "domain" ->
           \* self._domain = domain_create(...)
           IF fail THEN Outcome(r, w, Exc("libvirtError", name))
           ELSE Outcome([r EXCEPT !.domain = TRUE], w \cup {"domain"}, NoExc)
      [] name = "lookup" ->
           \* if self._network is None: self._network = network.lookup(...)
           IF r.network THEN Outcome(r, w, NoExc)
           ELSE IF fail THEN Outcome(r, w, Exc("libvirtError", name))
           ELSE Outcome([r EXCEPT !.network = cfg.attached], w, NoExc)

\* the calls of VBoxResources.allocate that may raise, in order
VBoxAllocateSteps == <<"image", "open", "domain">>

\* one statement of VBoxResources.allocate
VBoxAllocateStep(name, r, w, cfg, fail) ==
    CASE name = "image" ->
           \* disk_path = self.provider_image
           IF fail THEN Outcome(r, w, Exc("RuntimeError", name))
           ELSE Outcome(r, w, NoExc)
      [] name = "open" ->
           IF fail THEN Outcome(r, w, Exc("libvirtError", name))
           ELSE Outcome([r EXCEPT !.hypervisor = TRUE],
                        w \cup {"connection"}, NoExc)
      [] name = "domain" ->
           IF fail THEN Outcome(r, w, Exc("libvirtError", name))
           ELSE Outcome([r EXCEPT !.domain = TRUE], w \cup {"domain"}, NoExc)

\* the calls of LXCResources._initialize that may raise, in order
LXCInitializeSteps == <<"open", "network", "domain">>

\* one statement of LXCResources._initialize; domain_create makes the
\* directory of the mount point before it defines the domain
LXCInitializeStep(name, r, w, cfg, fail) ==
    CASE name = "open" ->
           IF fail THEN Outcome(r, w, Exc("libvirtError", name))
           ELSE Outcome([r EXCEPT !.hypervisor = TRUE],
                        w \cup {"connection"}, NoExc)
      [] name = "network" ->
           IF ~cfg.network THEN Outcome(r, w, NoExc)
           ELSE IF fail THEN Outcome(r, w, Exc("RuntimeError", name))
           ELSE Outcome([r EXCEPT !.network = TRUE], w \cup {"network"}, NoExc)
      [] name = "domain" ->
           LET mounted == IF cfg.filesystem THEN w \cup {"dir"} ELSE w IN
           IF fail THEN Outcome(r, mounted, Exc("libvirtError", name))
           ELSE Outcome([r EXCEPT !.domain = TRUE], mounted \cup {"domain"},
                        NoExc)

\* one statement of the class, by its name
AllocateStep(class, name, r, w, cfg, fail) ==
    CASE class = "QEMU" -> QEMUAllocateStep(name, r, w, cfg, fail)
      [] class = "VBox" -> VBoxAllocateStep(name, r, w, cfg, fail)
      [] class = "LXC" -> LXCInitializeStep(name, r, w, cfg, fail)

\* the statements from the i-th on, the failAt-th failing (0: none fails);
\* the first exception ends the run
RECURSIVE RunSteps(_, _, _, _, _, _, _)
RunSteps(class, steps, i, r, w, cfg, failAt) ==
    IF i > Len(steps) THEN Outcome(r, w, NoExc)
    ELSE LET o == AllocateStep(class, steps[i], r, w, cfg, i = failAt) IN
         IF o.exc # NoExc THEN o
         ELSE RunSteps(class, steps, i + 1, o.r, o.w, cfg, failAt)

(***************************************************************************)
(* The release of the Resources: every call to the back-end is wrapped,    *)
(* a failure is logged and the next release goes on.                       *)
(***************************************************************************)
\* the calls to the back-end a release makes, each of which may fail
ReleaseSteps ==
    {"domain", "network", "xmldesc", "volume", "pool", "dir", "connection"}

\* the release calls deallocate makes for the handles r holds
ReleaseCalls(r, cfg) ==
    {c \in ReleaseSteps :
        CASE c = "domain" -> r.domain
          [] c = "network" -> r.network /\ cfg.network
          [] c \in {"xmldesc", "volume", "pool", "dir"} ->
                 r.storage_pool /\ cfg.clone
          [] c = "connection" -> r.hypervisor}

\* the sets of release calls that fail in one deallocate of r: none of
\* them, any one of them, all of them, or all of them but the reading of
\* the description of the pool
ReleaseFailures(r, cfg) ==
    {{}, ReleaseCalls(r, cfg), ReleaseCalls(r, cfg) \ {"xmldesc"}}
        \cup {{c} : c \in ReleaseCalls(r, cfg)}

\* domain_delete(self._domain, self.logger): destroy the active domain,
\* undefine it; libvirtError is logged
DomainDelete(r, w, cfg, relFail) ==
    IF r.domain /\ "domain" \notin relFail THEN w \ {"domain"} ELSE w

\* a deallocate that leaves the network alone
NetworkKept(r, w, cfg, relFail) == w

\* a deallocate that destroys whatever network it holds
NetworkDestroyed(r, w, cfg, relFail) ==
    IF r.network /\ "network" \notin relFail THEN w \ {"network"} ELSE w

\* self._network_delete(): only a network the configuration asked for is
\* deleted; any exception is logged
NetworkDelete(r, w, cfg, relFail) ==
    IF r.network /\ cfg.network /\ "network" \notin relFail
    THEN w \ {"network"} ELSE w

\* self._storage_pool_delete(): only the pool of a clone is deleted;
\* pool_delete reads the path of the pool, deletes its volumes, destroys
\* it and removes its directory, logging the failure of each
StoragePoolDelete(r, w, cfg, relFail) ==
    IF r.storage_pool /\ cfg.clone /\ "xmldesc" \notin relFail
    THEN LET w1 == IF "volume" \in relFail THEN w ELSE w \ {"volume"}
             w2 == IF "pool" \in relFail THEN w1 ELSE w1 \ {"pool"}
         IN IF "dir" \in relFail THEN w2 ELSE w2 \ {"dir", "volume"}
    ELSE w

\* self._hypervisor_delete(): close, any exception is logged
HypervisorDelete(r, w, cfg, relFail) ==
    IF r.hypervisor /\ "connection" \notin relFail
    THEN w \ {"connection"} ELSE w

\* a deallocate that raises the first failure of a release call and
\* releases nothing after it
QEMUDeallocateAborts(r, w, cfg, relFail) ==
    LET w1 == DomainDelete(r, w, cfg, relFail)
        w2 == NetworkDelete(r, w1, cfg, relFail)
        w3 == StoragePoolDelete(r, w2, cfg, relFail)
        calls == ReleaseCalls(r, cfg) \cap relFail
    IN CASE calls = {} ->
              Outcome(r, HypervisorDelete(r, w3, cfg, relFail), NoExc)
         [] "domain" \in calls -> Outcome(r, w, Exc("libvirtError", "domain"))
         [] "network" \in calls /\ "domain" \notin calls ->
              Outcome(r, w1, Exc("libvirtError", "network"))
         [] calls \cap {"domain", "network"} = {} /\ calls # {"connection"} ->
              Outcome(r, w2, Exc("libvirtError", "pool"))
         [] calls = {"connection"} ->
              Outcome(r, w3, Exc("libvirtError", "connection"))

\* QEMUResources.deallocate
QEMUDeallocate(r, w, cfg, relFail) ==
    LET w1 == DomainDelete(r, w, cfg, relFail)
        w2 == NetworkDelete(r, w1, cfg, relFail)
        w3 == StoragePoolDelete(r, w2, cfg, relFail)
    IN Outcome(r, HypervisorDelete(r, w3, cfg, relFail), NoExc)

\* VBoxResources.deallocate
VBoxDeallocate(r, w, cfg, relFail) ==
    Outcome(r, HypervisorDelete(r, DomainDelete(r, w, cfg, relFail), cfg,
                                relFail), NoExc)

\* resources.allocate(); LXCResources defines none, Resources.allocate raises
Allocate(class, r, w, cfg, failAt) ==
    CASE class = "QEMU" -> RunSteps(class, QEMUAllocateSteps, 1, r, w, cfg, failAt)
      [] class = "VBox" -> RunSteps(class, VBoxAllocateSteps, 1, r, w, cfg, failAt)
      [] class = "LXC" -> Outcome(r, w, Exc("NotImplementedError", "allocate"))

\* resources.deallocate(); LXCResources defines none, Resources.deallocate
\* raises
Deallocate(class, r, w, cfg, relFail) ==
    CASE class = "QEMU" -> QEMUDeallocate(r, w, cfg, relFail)
      [] class = "VBox" -> VBoxDeallocate(r, w, cfg, relFail)
      [] class = "LXC" -> Outcome(r, w, Exc("NotImplementedError", "deallocate"))

\* XResources(identifier, configuration); LXCResources.__init__ runs
\* self._initialize()
Construct(class, w, cfg, failAt) ==
    IF class = "LXC"
    THEN RunSteps(class, LXCInitializeSteps, 1, Resources(class), w, cfg, failAt)
    ELSE Outcome(Resources(class), w, NoExc)

(***************************************************************************)
(* The context factories.                                                  *)
(***************************************************************************)
\* the factories of the tests: Context and WrongContext take no resources
TestContexts == {"Context", "WrongContext"}

ContextFactories == ResourcesClasses \cup TestContexts

NoneContext == [class |-> "None", res |-> Resources("None")]

\* SeeContext(identifier, resources)
SeeContext(r) == [class |-> "SeeContext", res |-> r]

\* the Resources a factory has when the allocation is over, failed or not
Allocated(class, w, cfg, failAt) ==
    IF class \in TestContexts THEN Resources("None")
    ELSE LET c == Construct(class, w, cfg, failAt) IN
         IF c.exc # NoExc THEN Resources("None")
         ELSE Allocate(class, c.r, c.w, cfg, failAt).r

\* what a call of a factory did: the failure of the allocation, whether
\* deallocate was called, the exception raised and the Context returned
FactoryResult(class, o, allocExc, deallocated, e, context) ==
    [called |-> TRUE, class |-> class, r |-> o.r, w |-> o.w,
     allocExc |-> allocExc, deallocated |-> deallocated, exc |-> e,
     context |-> context]

\* XContextFactory.__call__(identifier)
ContextFactory(class, w, cfg, failAt, relFail) ==
    IF class \in TestContexts
    THEN FactoryResult(class, Outcome(Resources("None"), w, NoExc), NoExc,
                       FALSE, NoExc, [class |-> class, res |-> Resources("None")])
    ELSE LET c == Construct(class, w, cfg, failAt) IN
         IF c.exc # NoExc
         THEN \* the constructor raises before the try
              FactoryResult(class, c, c.exc, FALSE, c.exc, NoneContext)
         ELSE LET a == Allocate(class, c.r, c.w, cfg, failAt) IN
              IF a.exc = NoExc
              THEN FactoryResult(class, a, NoExc, FALSE, NoExc, SeeContext(a.r))
              ELSE \* except Exception: resources.deallocate(); raise
                   LET d == Deallocate(class, a.r, a.w, cfg, relFail) IN
                   FactoryResult(class, d, a.exc, TRUE,
                                 IF d.exc # NoExc THEN d.exc ELSE a.exc,
                                 NoneContext)

\* the history keeps what the caller of the factory sees, and the Resources
\* the factory leaves
FactoryCall(f) ==
    [called |-> f.called, class |-> f.class, res |-> f.r,
     allocExc |-> f.allocExc, deallocated |-> f.deallocated, exc |-> f.exc,
     context |-> f.context.class]

NoFactoryCall ==
    [called |-> FALSE, class |-> "", res |-> Resources("None"),
     allocExc |-> NoExc, deallocated |-> FALSE, exc |-> NoExc,
     context |-> "None"]

(***************************************************************************)
(* The hook manager.                                                       *)
(***************************************************************************)
\* the entries of the 'hooks' list of a configuration: the name of a Hook
\* class (TestHook, WrongHook, or Hook itself), a name that is no Hook
\* class, a dictionary without 'name', and an entry that is no dictionary
HookEntries == {"TestHook", "WrongHook", "Hook", "nohook", "noname", "nodict"}

HookClasses == {"TestHook", "WrongHook", "Hook"}

\* HookManager.load_hooks(context) from the entry i on: hook.get raises
\* AttributeError on an entry that is no dictionary; the KeyError of a
\* missing name and any exception of _load_hook are logged
RECURSIVE LoadHooks(_, _, _)
LoadHooks(entries, i, hooks) ==
    IF i > Len(entries) THEN [hooks |-> hooks, exc |-> NoExc]
    ELSE CASE entries[i] = "nodict" ->
                [hooks |-> hooks, exc |-> Exc("AttributeError", "load_hooks")]
           [] entries[i] \in HookClasses ->
                LoadHooks(entries, i + 1, Append(hooks, entries[i]))
           [] OTHER -> LoadHooks(entries, i + 1, hooks)

\* hooks_factory(identifier, configuration, context)
hooks_factory(entries) == LoadHooks(entries, 1, <<>>)

\* obj.cleanup() of a hook or of a context of the tests
CleanupRaises(class) ==
    CASE class = "TestHook" -> NoExc
      [] class = "WrongHook" -> Exc("KeyError", "cleanup")
      [] class = "Hook" -> Exc("NotImplementedError", "cleanup")
      [] class = "Context" -> Exc("NotImplementedError", "cleanup")
      [] class = "WrongContext" -> Exc("KeyError", "cleanup")

\* a call of cleanup: on what, how it ended and the release calls that failed
Cleaned(obj, e, failed) == [obj |-> obj, exc |-> e, failed |-> failed]

\* HookManager.cleanup(): every hook is cleaned, NotImplementedError is
\* passed and any other Exception logged
HookManagerCleanup(hooks) ==
    [i \in 1..Len(hooks) |-> Cleaned(hooks[i], CleanupRaises(hooks[i]), {})]

(***************************************************************************)
(* The Environment, statement by statement.                                *)
(***************************************************************************)
\* Environment._hookmanager: None, or a HookManager and its hooks
NoneManager == [set |-> FALSE, hooks |-> <<>>]

HookManager(hooks) == [set |-> TRUE, hooks |-> hooks]

\* the 'hooks' lists of the configurations the embedder gives
HookLists ==
    { <<>>,
      <<"TestHook", "WrongHook">>,
      <<"WrongHook", "TestHook">>,
      <<"WrongHook">>,
      <<"Hook">>,
      <<"noname", "TestHook">>,
      <<"nohook", "WrongHook">>,
      <<"nodict">>,
      <<"TestHook", "nodict">> }

\* what the embedder builds its Environment with: the context factory, the
\* configuration of the Resources, the hooks and whether the configuration
\* is a dictionary or the path of a file that does not exist
Scenarios ==
    {sc \in [factory : ContextFactories, cfg : ResourcesConfigurations,
             hooks : HookLists, configuration : {"dict", "nofile"}] :
        /\ sc.cfg \in ConfigurationsOf(sc.factory)
        /\ sc.configuration = "nofile" =>
               (sc.factory = "Context" /\ sc.hooks = <<>>)}

\* the with statement of the embedder: where it is, whether its body was
\* entered, what its target was bound to and the exception of its body
NoScope == [at |-> "none", entered |-> FALSE, bound |-> "None", body |-> NoExc]

\* how a call ended: the exception raised, the value returned and the state
\* the Environment was in
Ret(op, e, value, state) ==
    [op |-> op, exc |-> e, value |-> value, state |-> state]

\* a call in progress, with the hooks and the context it found
Call(op) ==
    [op |-> op, hooks |-> env_hookmanager.hooks, context |-> env_context.class,
     state |-> envState]

EnvInit ==
    /\ env_context = NoneContext
    /\ env_hookmanager = NoneManager
    /\ world = {}
    /\ envPc = "idle"
    /\ envCall = [op |-> "", hooks |-> <<>>, context |-> "None", state |-> "new"]
    /\ scope = NoScope
    /\ envState = "new"
    /\ envRet = Ret("", NoExc, "None", "new")
    /\ factoryLog = NoFactoryCall
    /\ cleanLog = <<>>
    /\ created = {}

\* the embedder has built no Environment
NoEnvironment ==
    /\ EnvInit
    /\ envOps = 0
    /\ scenario = [factory |-> "Context",
                   cfg |-> [network |-> FALSE, clone |-> FALSE,
                            attached |-> FALSE, filesystem |-> FALSE],
                   hooks |-> <<>>, configuration |-> "dict"]

CanCallEnv == envPc = "idle" /\ envOps > 0 /\ scope.at \in {"none", "out"}

\* the embedder calls environment.allocate() on an Environment that is new
\* or deallocated
CallAllocate ==
    /\ CanCallEnv
    /\ envState \in {"new", "deallocated"}
    /\ envPc' = "factory"
    /\ envCall' = Call("allocate")
    /\ envOps' = envOps - 1
    /\ UNCHANGED <<scenario, env_context, env_hookmanager, world, scope,
                   envState, envRet, factoryLog, cleanLog, created>>
    /\ UNCHANGED <<busVars, cmds, domState, roundTrip>>

\* an exception leaves allocate; the with statement whose __enter__ raised
\* is over
AllocateRaises(e) ==
    /\ envPc' = "idle"
    /\ envState' = "failed"
    /\ envRet' = Ret(envCall.op, e, "None", envState)
    /\ scope' = IF envCall.op = "enter" THEN [scope EXCEPT !.at = "out"]
                ELSE scope

\* self.configuration = load_configuration(self.configuration)
\* self._context = self._contextfactory(self.identifier)
AllocateContext ==
    /\ envPc = "factory"
    /\ UNCHANGED <<scenario, env_hookmanager, envCall, envOps, cleanLog>>
    /\ UNCHANGED <<busVars, cmds, domState, roundTrip>>
    /\ IF scenario.configuration = "nofile"
       THEN /\ AllocateRaises(Exc("IOError", "load_configuration"))
            /\ UNCHANGED <<env_context, world, factoryLog, created>>
       ELSE \E failAt \in 0..Len(QEMUAllocateSteps) :
            \E relFail \in ReleaseFailures(Allocated(scenario.factory, world,
                                                     scenario.cfg, failAt),
                                           scenario.cfg) :
              LET f == ContextFactory(scenario.factory, world, scenario.cfg,
                                      failAt, relFail)
              IN /\ factoryLog' = FactoryCall(f)
                 /\ world' = f.w
                 /\ IF f.exc # NoExc
                    THEN /\ AllocateRaises(f.exc)
                         /\ UNCHANGED <<env_context, created>>
                    ELSE /\ env_context' = f.context
                         /\ created' = f.w \ world
                         /\ envPc' = "hooks"
                         /\ UNCHANGED <<envState, envRet, scope>>

\* self._hookmanager = hooks_factory(self.identifier, self.configuration,
\*                                   self._context)
AllocateHooks ==
    LET h == hooks_factory(scenario.hooks) IN
    /\ envPc = "hooks"
    /\ UNCHANGED <<scenario, env_context, world, envCall, envOps, factoryLog,
                   cleanLog, created>>
    /\ UNCHANGED <<busVars, cmds, domState, roundTrip>>
    /\ IF h.exc # NoExc
       THEN /\ AllocateRaises(h.exc)
            /\ UNCHANGED env_hookmanager
       ELSE /\ env_hookmanager' = HookManager(h.hooks)
            /\ envState' = "allocated"
            /\ envPc' = "idle"
            /\ IF envCall.op = "enter"
               THEN \* __enter__ returns self and the body is entered
                    /\ envRet' = Ret("enter", NoExc, "self", envState)
                    /\ scope' = [scope EXCEPT !.at = "in", !.entered = TRUE,
                                              !.bound = "self"]
               ELSE /\ envRet' = Ret("allocate", NoExc, "None", envState)
                    /\ UNCHANGED scope

\* the embedder calls environment.deallocate()
CallDeallocate ==
    /\ CanCallEnv
    /\ envPc' = "cleanup_hooks"
    /\ envCall' = Call("deallocate")
    /\ envOps' = envOps - 1
    /\ cleanLog' = <<>>
    /\ UNCHANGED <<scenario, env_context, env_hookmanager, world, scope,
                   envState, envRet, factoryLog, created>>
    /\ UNCHANGED <<busVars, cmds, domState, roundTrip>>

\* an except clause that passes NotImplementedError only
CleanupPasses(e) == e.kind = "NotImplementedError"

\* cleanup(logger, *args): except NotImplementedError: pass;
\* except Exception: logger.exception(...)
CleanupCatches(e) == e.kind = "NotImplementedError" \/ e.kind \in ExceptionKinds

\* an exception leaves deallocate
DeallocateRaises(e) ==
    /\ envPc' = "idle"
    /\ envRet' = Ret(envCall.op, e, "None", envState)
    /\ scope' = IF envCall.op = "exit" THEN [scope EXCEPT !.at = "out"]
                ELSE scope

\* cleanup(self.logger, self._hookmanager, ...): the hook manager, when
\* there is one, cleans every hook and forgets them
CleanupHooks ==
    /\ envPc = "cleanup_hooks"
    /\ envPc' = "cleanup_context"
    /\ cleanLog' = IF env_hookmanager.set
                   THEN HookManagerCleanup(env_hookmanager.hooks)
                   ELSE <<>>
    /\ env_hookmanager' = [env_hookmanager EXCEPT !.hooks = <<>>]
    /\ UNCHANGED <<scenario, env_context, world, envCall, envOps, scope,
                   envState, envRet, factoryLog, created>>
    /\ UNCHANGED <<busVars, cmds, domState, roundTrip>>

\* cleanup(self.logger, ..., self._context): the context, when there is one,
\* is cleaned; SeeContext.cleanup deallocates its resources
CleanupContext ==
    /\ envPc = "cleanup_context"
    /\ UNCHANGED <<scenario, env_context, env_hookmanager, envCall, envOps,
                   envState, factoryLog, created>>
    /\ UNCHANGED <<busVars, cmds, domState, roundTrip>>
    /\ IF env_context = NoneContext
       THEN /\ envPc' = "drop"
            /\ UNCHANGED <<world, cleanLog, envRet, scope>>
       ELSE \E relFail \in ReleaseFailures(env_context.res, scenario.cfg) :
              LET r == env_context.res
                  o == IF env_context.class = "SeeContext"
                       THEN Deallocate(r.class, r, world, scenario.cfg, relFail)
                       ELSE Outcome(r, world, CleanupRaises(env_context.class))
                  failed == IF env_context.class = "SeeContext"
                            THEN relFail ELSE {}
              IN /\ world' = o.w
                 /\ cleanLog' = Append(cleanLog,
                                       Cleaned(env_context.class, o.exc, failed))
                 /\ IF o.exc = NoExc \/ CleanupCatches(o.exc)
                    THEN /\ envPc' = "drop"
                         /\ UNCHANGED <<envRet, scope>>
                    ELSE DeallocateRaises(o.exc)

\* a deallocate that returns with the context and the hook manager kept
DeallocateKeeps ==
    /\ envPc = "drop"
    /\ envState' = "deallocated"
    /\ envPc' = "idle"
    /\ IF envCall.op = "exit"
       THEN /\ scope' = [scope EXCEPT !.at = "out"]
            /\ envRet' = Ret("exit", scope.body, "None", envState)
       ELSE /\ envRet' = Ret("deallocate", NoExc, "None", envState)
            /\ UNCHANGED scope
    /\ UNCHANGED <<scenario, env_context, env_hookmanager, world, envCall,
                   envOps, factoryLog, cleanLog, created>>
    /\ UNCHANGED <<busVars, cmds, domState, roundTrip>>

\* self._context = None; self._hookmanager = None; deallocate returns, and
\* the with statement that called it raises the exception of its body
DeallocateReturns ==
    /\ envPc = "drop"
    /\ env_context' = NoneContext
    /\ env_hookmanager' = NoneManager
    /\ envState' = "deallocated"
    /\ envPc' = "idle"
    /\ IF envCall.op = "exit"
       THEN /\ scope' = [scope EXCEPT !.at = "out"]
            /\ envRet' = Ret("exit", scope.body, "None", envState)
       ELSE /\ envRet' = Ret("deallocate", NoExc, "None", envState)
            /\ UNCHANGED scope
    /\ UNCHANGED <<scenario, world, envCall, envOps, factoryLog, cleanLog,
                   created>>
    /\ UNCHANGED <<busVars, cmds, domState, roundTrip>>

\* Environment.context: the Context, or RuntimeError when _context is None
ContextProperty(op) ==
    IF env_context # NoneContext
    THEN Ret(op, NoExc, env_context.class, envState)
    ELSE Ret(op, Exc("RuntimeError", "context"), "None", envState)

\* the embedder reads environment.context
ReadContext ==
    /\ CanCallEnv
    /\ envRet' = ContextProperty("context")
    /\ envOps' = envOps - 1
    /\ UNCHANGED <<scenario, env_context, env_hookmanager, world, envPc,
                   envCall, scope, envState, factoryLog, cleanLog, created>>
    /\ UNCHANGED <<busVars, cmds, domState, roundTrip>>

(***************************************************************************)
(* with Environment(...) as environment: body                              *)
(***************************************************************************)
\* __enter__: self.allocate(), then return self
ScopeEnter ==
    /\ CanCallEnv
    /\ scope.at = "none" /\ envState = "new"
    /\ envPc' = "factory"
    /\ envCall' = Call("enter")
    /\ scope' = [scope EXCEPT !.at = "entering"]
    /\ envOps' = envOps - 1
    /\ UNCHANGED <<scenario, env_context, env_hookmanager, world, envState,
                   envRet, factoryLog, cleanLog, created>>
    /\ UNCHANGED <<busVars, cmds, domState, roundTrip>>

\* the body reads environment.context and ends, normally or by an exception
ScopeBody ==
    /\ envPc = "idle" /\ scope.at = "in"
    /\ envRet' = ContextProperty("body")
    /\ \E e \in {NoExc, Exc("Exception", "body")} :
           scope' = [scope EXCEPT !.at = "leaving", !.body = e]
    /\ UNCHANGED <<scenario, env_context, env_hookmanager, world, envPc,
                   envCall, envOps, envState, factoryLog, cleanLog, created>>
    /\ UNCHANGED <<busVars, cmds, domState, roundTrip>>

\* an __exit__ that deallocates only when the body raised nothing
ExitOnSuccess(args) == args = NoExc

\* __exit__(self, *args): self.deallocate(), whatever args is
ExitDeallocates(args) == TRUE

\* the with statement calls __exit__ with the exception of the body
ScopeExit ==
    /\ envPc = "idle" /\ scope.at = "leaving"
    /\ envCall' = Call("exit")
    /\ cleanLog' = <<>>
    /\ IF ExitDeallocates(scope.body)
       THEN /\ envPc' = "cleanup_hooks"
            /\ UNCHANGED <<scope, envRet>>
       ELSE /\ scope' = [scope EXCEPT !.at = "out"]
            /\ envRet' = Ret("exit", scope.body, "None", envState)
            /\ UNCHANGED envPc
    /\ UNCHANGED <<scenario, env_context, env_hookmanager, world, envOps,
                   envState, factoryLog, created>>
    /\ UNCHANGED <<busVars, cmds, domState, roundTrip>>

(***************************************************************************)
(* The Observable used by the embedder's thread and its handlers.          *)
(***************************************************************************)
Init ==
    /\ BusInit
    /\ opsLeft = <<MaxOps, 0>>
    /\ domState = RUNNING
    /\ cmds = <<>>
    /\ NoEnvironment

Next ==
    \/ \E t \in Clients, s \in ClientSubscriptions : CallSubscribe(t, s)
    \/ \E t \in Clients, s \in ClientSubscriptions : CallSubscribeAsync(t, s)
    \/ \E t \in Clients, s \in ClientSubscriptions : CallUnsubscribe(t, s)
    \/ \E t \in Clients, ev \in Events, pay \in Payloads : CallTrigger(t, ev, pay)
    \/ \E t \in Threads : TriggerAcquire(t)
    \/ \E t \in Threads : TriggerAsync(t)
    \/ \E t \in Threads : TriggerSync(t)
    \/ \E t \in Threads : Synchronous(t)
    \/ \E t \in Threads : Unsubscribe(t)
    \/ \E t \in Threads : Unwind(t)

Spec == Init /\ [][Next]_vars

\* the threads run whenever they can
ThreadsNext ==
    \E t \in Threads :
        \/ TriggerAcquire(t) \/ TriggerAsync(t) \/ TriggerSync(t)
        \/ Synchronous(t) \/ Unsubscribe(t) \/ Unwind(t)

FairSpec == Spec /\ WF_vars(ThreadsNext)

(***************************************************************************)
(* A SeeContext whose verbs the embedder calls, with hooks on its events.  *)
(***************************************************************************)
CtxInit ==
    /\ HooksLoaded(LifecycleSubscriptions(VerbSeq))
    /\ ThreadsInit
    /\ opsLeft = <<MaxOps, 0>>
    /\ domState \in DomainStates
    /\ cmds = <<>>
    /\ NoEnvironment

CtxNext ==
    \/ \E t \in Clients, verb \in Verbs, pay \in Payloads, tmo \in Timeouts :
           CallVerb(t, verb, pay, tmo)
    \/ \E t \in Threads : AssertTransition(t)
    \/ \E t \in Threads : ExecuteCommand(t)
    \/ \E t \in Threads : WaitForShutdown(t)
    \/ \E t \in Threads : CommandReturn(t)
    \/ GuestHalts
    \/ \E t \in Threads : TriggerAcquire(t)
    \/ \E t \in Threads : TriggerAsync(t)
    \/ \E t \in Threads : TriggerSync(t)
    \/ \E t \in Threads : Synchronous(t)
    \/ \E t \in Threads : Unwind(t)

SpecCtx == CtxInit /\ [][CtxNext]_vars

\* the steps of the threads that are in a call
CtxThreadsNext ==
    \E t \in Threads :
        \/ AssertTransition(t) \/ ExecuteCommand(t) \/ WaitForShutdown(t)
        \/ CommandReturn(t)
        \/ TriggerAcquire(t) \/ TriggerAsync(t) \/ TriggerSync(t)
        \/ Synchronous(t) \/ Unwind(t)

\* the embedder calls shutdown, with a timeout or without, and nothing else
ShutdownNext ==
    \/ \E pay \in Payloads, tmo \in Timeouts : CallVerb(1, "shutdown", pay, tmo)
    \/ \E t \in Threads : AssertTransition(t)
    \/ \E t \in Threads : ExecuteCommand(t)
    \/ \E t \in Threads : WaitForShutdown(t)
    \/ \E t \in Threads : CommandReturn(t)
    \/ GuestHalts
    \/ \E t \in Threads : TriggerAcquire(t)
    \/ \E t \in Threads : TriggerAsync(t)
    \/ \E t \in Threads : TriggerSync(t)
    \/ \E t \in Threads : Synchronous(t)
    \/ \E t \in Threads : Unwind(t)

\* a thread that is in a call and can go on does: the threads of the
\* embedder and of the asynchronous handlers are scheduled
SpecShutdown == CtxInit /\ [][ShutdownNext]_vars /\ WF_vars(CtxThreadsNext)

(***************************************************************************)
(* A SeeContext whose verbs the embedder calls, with a hook that observes  *)
(* pre_V and post_V of every verb, synchronously and asynchronously.       *)
(***************************************************************************)
\* for every verb, a recording synchronous handler and a recording
\* asynchronous handler on pre_* and on post_*
RECURSIVE ObserverSubscriptions(_)
ObserverSubscriptions(vs) ==
    IF vs = <<>> THEN <<>>
    ELSE ObserverSubscriptions(Front(vs)) \o
         << [ev |-> PreEvent(Last(vs)), h |-> "handler1", mode |-> "sync"],
            [ev |-> PreEvent(Last(vs)), h |-> "async_handler", mode |-> "async"],
            [ev |-> PostEvent(Last(vs)), h |-> "handler1", mode |-> "sync"],
            [ev |-> PostEvent(Last(vs)), h |-> "async_handler",
             mode |-> "async"] >>

ObserverInit ==
    /\ HooksLoaded(ObserverSubscriptions(VerbSeq))
    /\ ThreadsInit
    /\ opsLeft = <<MaxOps, 0>>
    /\ domState \in DomainStates
    /\ cmds = <<>>
    /\ NoEnvironment

SpecObserver == ObserverInit /\ [][CtxNext]_vars

(***************************************************************************)
(* An Environment the embedder allocates, reads and deallocates, by calls  *)
(* or by a with statement.                                                 *)
(***************************************************************************)
EnvSpecInit ==
    /\ EnvInit
    /\ envOps = MaxEnvOps
    /\ scenario \in Scenarios
    /\ HooksLoaded(<<>>)
    /\ ThreadsInit
    /\ opsLeft = <<0, 0>>
    /\ domState = NOSTATE
    /\ cmds = <<>>

EnvNext ==
    \/ CallAllocate
    \/ AllocateContext
    \/ AllocateHooks
    \/ CallDeallocate
    \/ CleanupHooks
    \/ CleanupContext
    \/ DeallocateReturns
    \/ ReadContext
    \/ ScopeEnter
    \/ ScopeBody
    \/ ScopeExit

SpecEnv == EnvSpecInit /\ [][EnvNext]_vars

(***************************************************************************)
(* An Observable whose handlers subscribe and unsubscribe handlers of the  *)
(* event they are called with, used by two threads of the embedder.        *)
(***************************************************************************)
\* the subscriptions made by the hooks, in order
MutatingSubscriptions ==
    << [ev |-> "event1", h |-> "handler1", mode |-> "sync"],
       [ev |-> "event1", h |-> "unsub_handler", mode |-> "sync"],
       [ev |-> "event1", h |-> "error_handler", mode |-> "sync"],
       [ev |-> "event1", h |-> "handler1", mode |-> "async"] >>

\* the (event, handler) pairs the two threads subscribe and unsubscribe
MutatingClientSubscriptions ==
    { [ev |-> "event1", h |-> "handler1"],
      [ev |-> "event1", h |-> "sub_handler"],
      [ev |-> "event42", h |-> "handler1"] }

\* the events the two threads trigger
MutatingEvents == {"event1", "event42"}

\* the first thread makes MaxOps calls, the second thread one
SubsInit ==
    /\ HooksLoaded(MutatingSubscriptions)
    /\ ThreadsInit
    /\ opsLeft = <<MaxOps, 1>>
    /\ domState = RUNNING
    /\ cmds = <<>>
    /\ NoEnvironment

SubsNext ==
    \/ \E t \in Clients, s \in MutatingClientSubscriptions : CallSubscribe(t, s)
    \/ \E t \in Clients, s \in MutatingClientSubscriptions :
           CallSubscribeAsync(t, s)
    \/ \E t \in Clients, s \in MutatingClientSubscriptions :
           CallUnsubscribe(t, s)
    \/ \E t \in Clients, ev \in MutatingEvents : CallTrigger(t, ev, "none")
    \/ \E t \in Threads : TriggerAcquire(t)
    \/ \E t \in Threads : TriggerAsync(t)
    \/ \E t \in Threads : TriggerSync(t)
    \/ \E t \in Threads : Synchronous(t)
    \/ \E t \in Threads : Unsubscribe(t)
    \/ \E t \in Threads : Unwind(t)

SpecSubs == SubsInit /\ [][SubsNext]_vars

(***************************************************************************)
(* An Observable with some subscriptions, to which one thread of the       *)
(* embedder subscribes handlers and from which it unsubscribes them.       *)
(***************************************************************************)
\* the subscriptions that can have been made before
RoundTripRegistrations ==
    [ev : {"event1"}, h : {"handler1", "async_handler"},
     mode : {"sync", "async"}]

\* the lists of at most MaxSubscribed subscriptions made before, in order
RoundTripSubscriptions ==
    UNION {[1..n -> RoundTripRegistrations] : n \in 0..MaxSubscribed}

\* the (event, handler) pairs the embedder subscribes and unsubscribes
RoundTripPairs ==
    { [ev |-> "event1", h |-> "handler1"],
      [ev |-> "event42", h |-> "handler1"] }

RoundTripInit ==
    /\ \E subs \in RoundTripSubscriptions : HooksLoaded(subs)
    /\ ThreadsInit
    /\ opsLeft = <<MaxOps + 1, 0>>
    /\ domState = RUNNING
    /\ cmds = <<>>
    /\ NoEnvironment

RoundTripNext ==
    \/ \E t \in Clients, s \in RoundTripPairs : CallSubscribe(t, s)
    \/ \E t \in Clients, s \in RoundTripPairs : CallSubscribeAsync(t, s)
    \/ \E t \in Clients, s \in RoundTripPairs : CallUnsubscribe(t, s)
    \/ \E t \in Threads : Unsubscribe(t)
    \/ \E t \in Threads : Unwind(t)

SpecRoundTrip == RoundTripInit /\ [][RoundTripNext]_vars

(***************************************************************************)
(* A Context whose Resources are allocated, read by the embedder while     *)
(* parts of the back-end have stopped.                                     *)
(***************************************************************************)
\* the properties of SeeContext that return a handle of the Resources
ContextGetters == {"hypervisor", "storage_pool", "network"}

\* what the handle of a getter stands for in the world
HandleOf(name) ==
    CASE name = "hypervisor" -> "connection"
      [] name = "storage_pool" -> "pool"
      [] name = "network" -> "network"

\* hypervisor.isAlive(), storage_pool.isActive(), network.isActive()
IsAlive(name, w) == HandleOf(name) \in w

\* SeeContext.hypervisor, .storage_pool, .network: under the mutex of the
\* handle, return self._resources.<name>
ContextGetter(c, name, w) ==
    Ret(name, NoExc, IF c.res[name] THEN name ELSE "None", envState)

\* the embedder reads a getter of the Context
ReadGetter(name) ==
    /\ envOps > 0
    /\ env_context.class = "SeeContext"
    /\ envRet' = ContextGetter(env_context, name, world)
    /\ envOps' = envOps - 1
    /\ UNCHANGED <<scenario, env_context, env_hookmanager, world, envPc,
                   envCall, scope, envState, factoryLog, cleanLog, created>>
    /\ UNCHANGED <<busVars, cmds, domState, roundTrip>>

\* the Resources of a factory whose allocation succeeded, and a world in
\* which any of what they created has stopped since
GettersInit ==
    /\ env_hookmanager = NoneManager
    /\ envPc = "idle"
    /\ envCall = [op |-> "", hooks |-> <<>>, context |-> "None", state |-> "new"]
    /\ scope = NoScope
    /\ envState = "allocated"
    /\ envRet = Ret("", NoExc, "None", "new")
    /\ factoryLog = NoFactoryCall
    /\ cleanLog = <<>>
    /\ created = {}
    /\ envOps = MaxEnvOps
    /\ scenario \in {sc \in Scenarios :
                        sc.factory \in {"QEMU", "VBox"} /\ sc.hooks = <<>>}
    /\ \E failAt \in {0, 2} :
          LET f == ContextFactory(scenario.factory, {}, scenario.cfg, failAt, {})
          IN /\ f.exc = NoExc
             /\ env_context = f.context
             /\ world \in SUBSET f.w
    /\ HooksLoaded(<<>>)
    /\ ThreadsInit
    /\ opsLeft = <<0, 0>>
    /\ domState = NOSTATE
    /\ cmds = <<>>

GettersNext == \E name \in ContextGetters : ReadGetter(name)

SpecGetters == GettersInit /\ [][GettersNext]_vars

(***************************************************************************)
(* The HookManager, statement by statement: load_hooks merges the          *)
(* configurations and builds a hook for each entry, cleanup cleans the     *)
(* hooks it holds.                                                         *)
(***************************************************************************)
\* a dictionary with the given keys, all set to v
Dict(keys, v) == [k \in keys |-> v]

\* d.update(other): the keys of other are set in d to the values of other
Update(d, other) ==
    [k \in DOMAIN d \cup DOMAIN other |->
        IF k \in DOMAIN other THEN other[k] ELSE d[k]]

\* the 'name' of an entry: the classes and names of HookEntries, a class
\* that is no Hook and a Hook whose constructor raises
HookNames == (HookEntries \ {"nodict"}) \cup {"notahook", "raising"}

\* the 'configuration' of an entry, when it has one
OwnConfigurations == {Dict({"foo"}, "own"), Dict({"key"}, "own")}

\* the 'configuration' of the configuration, shared by the hooks
SharedConfigurations == {Dict({}, "shared"), Dict({"key"}, "shared")}

\* an entry of the 'hooks' list: a dictionary with or without 'name' and
\* 'configuration', or something that is no dictionary
HookEntry(name, has, configuration) ==
    [name |-> name, has |-> has, configuration |-> configuration]

ManagerEntries ==
    {HookEntry(n, TRUE, c) : n \in HookNames, c \in OwnConfigurations}
        \cup {HookEntry(n, FALSE, Dict({}, "own")) : n \in HookEntries}

\* the 'hooks' lists of the configurations a HookManager is built with
ManagerHookLists ==
    UNION {[1..n -> ManagerEntries] : n \in 0..MaxHooks}

\* a _load_hook that finds every class and builds every hook
LoadHookNeverRaises(name) == NoExc

\* lookup_hook_class(name) and HookClass(HookParameters(...)): the exception
\* _load_hook logs
LoadHookRaises(name) ==
    CASE name = "nohook" -> Exc("ImportError", "lookup_class")
      [] name = "notahook" -> Exc("ValueError", "lookup_hook_class")
      [] name = "raising" -> Exc("Exception", "__init__")
      [] OTHER -> NoExc

\* a hook: its class, the configuration it was built with and the entry it
\* was built for
HookObject(class, configuration, i) ==
    [class |-> class, configuration |-> configuration, entry |-> i]

\* a call on the HookManager: the statement it is at, the hooks it found
ManagerCall(op, i) == [op |-> op, i |-> i, hooks |-> env_hookmanager.hooks]

\* the embedder calls manager.load_hooks(context)
CallLoadHooks ==
    /\ envPc = "idle" /\ envOps > 0
    /\ envPc' = "load_hooks"
    /\ envCall' = ManagerCall("load_hooks", 1)
    /\ envOps' = envOps - 1
    /\ UNCHANGED <<scenario, env_context, env_hookmanager, world, scope,
                   envState, envRet, factoryLog, cleanLog, created>>
    /\ UNCHANGED <<busVars, cmds, domState, roundTrip>>

\* for hook in self.configuration.get('hooks', ()): one turn of the loop, or
\* its end. hook.get raises AttributeError on an entry that is no
\* dictionary; config is the dictionary of the entry when it has one, and
\* update changes it in place
LoadHook ==
    /\ envPc = "load_hooks"
    /\ UNCHANGED <<env_context, world, envOps, scope, envState, factoryLog,
                   cleanLog, created>>
    /\ UNCHANGED <<busVars, cmds, domState, roundTrip>>
    /\ IF envCall.i > Len(scenario.hooks)
       THEN /\ envPc' = "idle"
            /\ envRet' = Ret("load_hooks", NoExc, "None", envState)
            /\ UNCHANGED <<scenario, env_hookmanager, envCall>>
       ELSE LET hook == scenario.hooks[envCall.i]
                config == Update(hook.configuration, scenario.configuration)
            IN IF hook.name = "nodict"
               THEN /\ envPc' = "idle"
                    /\ envRet' = Ret("load_hooks",
                                     Exc("AttributeError", "load_hooks"),
                                     "None", envState)
                    /\ UNCHANGED <<scenario, env_hookmanager, envCall>>
               ELSE /\ scenario' =
                           IF hook.has
                           THEN [scenario EXCEPT
                                    !.hooks[envCall.i].configuration = config]
                           ELSE scenario
                    /\ env_hookmanager' =
                           IF hook.name # "noname"
                              /\ LoadHookRaises(hook.name) = NoExc
                           THEN [env_hookmanager EXCEPT !.hooks =
                                    Append(@, HookObject(hook.name, config,
                                                         envCall.i))]
                           ELSE env_hookmanager
                    /\ envCall' = [envCall EXCEPT !.i = @ + 1]
                    /\ UNCHANGED <<envPc, envRet>>

\* the embedder calls manager.cleanup()
CallCleanup ==
    /\ envPc = "idle" /\ envOps > 0
    /\ envPc' = "cleanup"
    /\ envCall' = ManagerCall("cleanup", 1)
    /\ envOps' = envOps - 1
    /\ cleanLog' = <<>>
    /\ UNCHANGED <<scenario, env_context, env_hookmanager, world, scope,
                   envState, envRet, factoryLog, created>>
    /\ UNCHANGED <<busVars, cmds, domState, roundTrip>>

\* for hook in self.hooks: hook.cleanup(), NotImplementedError passed and
\* any other Exception logged; after the loop, self.hooks = []
CleanupHook ==
    /\ envPc = "cleanup"
    /\ UNCHANGED <<scenario, env_context, world, envOps, scope, envState,
                   factoryLog, created>>
    /\ UNCHANGED <<busVars, cmds, domState, roundTrip>>
    /\ IF envCall.i > Len(env_hookmanager.hooks)
       THEN /\ env_hookmanager' = [env_hookmanager EXCEPT !.hooks = <<>>]
            /\ envPc' = "idle"
            /\ envRet' = Ret("cleanup", NoExc, "None", envState)
            /\ UNCHANGED <<envCall, cleanLog>>
       ELSE LET hook == env_hookmanager.hooks[envCall.i]
                e == CleanupRaises(hook.class)
            IN /\ cleanLog' = Append(cleanLog, Cleaned(hook, e, {}))
               /\ UNCHANGED env_hookmanager
               /\ IF e = NoExc \/ CleanupCatches(e)
                  THEN /\ envCall' = [envCall EXCEPT !.i = @ + 1]
                       /\ UNCHANGED <<envPc, envRet>>
                  ELSE /\ envPc' = "idle"
                       /\ envRet' = Ret("cleanup", e, "None", envState)
                       /\ UNCHANGED envCall

\* HookManager(identifier, configuration): no hook yet
ManagerInit ==
    /\ scenario \in [configuration : SharedConfigurations,
                     hooks : ManagerHookLists]
    /\ env_hookmanager = HookManager(<<>>)
    /\ env_context = NoneContext
    /\ world = {}
    /\ envPc = "idle"
    /\ envCall = [op |-> "", i |-> 0, hooks |-> <<>>]
    /\ envOps = 2
    /\ scope = NoScope
    /\ envState = "new"
    /\ envRet = Ret("", NoExc, "None", "new")
    /\ factoryLog = NoFactoryCall
    /\ cleanLog = <<>>
    /\ created = {}
    /\ HooksLoaded(<<>>)
    /\ ThreadsInit
    /\ opsLeft = <<0, 0>>
    /\ domState = NOSTATE
    /\ cmds = <<>>

ManagerNext ==
    \/ CallLoadHooks
    \/ LoadHook
    \/ CallCleanup
    \/ CleanupHook

SpecHooks == ManagerInit /\ [][ManagerNext]_vars

(***************************************************************************)
(* network.create: the virtual network of a context, created by attempts.  *)
(***************************************************************************)
\* network.MAX_ATTEMPTS
MAX_ATTEMPTS == 10

\* the values of network.MAX_ATTEMPTS: its default and the one of the tests
AttemptLimits == {3, MAX_ATTEMPTS}

\* the keys of the configuration of the network
NetworkConfigurations ==
    [configuration : BOOLEAN, dynamic_address : BOOLEAN]

\* the subnets of configuration['dynamic_address']
AddressPool == {"10.0.0.0/24", "10.0.1.0/24"}

\* address_lookup(hypervisor, address_pool): the addresses random.choice
\* draws from, none when all are in use
AvailableAddresses(active) == AddressPool \ active

\* a call of network.create: the value next(counter) returns next, the
\* calls of networkCreateXML made and the address of the last of them
CreateCall(counter, attempts, address) ==
    [op |-> "create", counter |-> counter, attempts |-> attempts,
     address |-> address]

\* an exception leaves network.create
CreateRaises(e) ==
    /\ envPc' = "idle"
    /\ envRet' = Ret("create", e, "None", envState)

\* the allocator calls network.create(hypervisor, identifier, configuration):
\* one of the two keys must be there
CallCreate ==
    /\ envPc = "idle" /\ envOps > 0
    /\ envOps' = envOps - 1
    /\ envCall' = CreateCall(0, 0, "")
    /\ IF ~scenario.cfg.configuration /\ ~scenario.cfg.dynamic_address
       THEN CreateRaises(Exc("RuntimeError", "create"))
       ELSE envPc' = "while" /\ UNCHANGED envRet
    /\ UNCHANGED <<scenario, env_context, env_hookmanager, world, scope,
                   envState, factoryLog, cleanLog, created>>
    /\ UNCHANGED <<busVars, cmds, domState, roundTrip>>

\* one turn of while True: with a dynamic address, an address no active
\* network has is drawn (RuntimeError when there is none); then
\* hypervisor.networkCreateXML returns the network, or raises libvirtError,
\* and RuntimeError is raised when next(counter) > MAX_ATTEMPTS
CreateAttempt ==
    /\ envPc = "while"
    /\ UNCHANGED <<scenario, env_context, env_hookmanager, envOps, scope,
                   envState, factoryLog, cleanLog, created>>
    /\ UNCHANGED <<busVars, cmds, domState, roundTrip>>
    /\ IF scenario.cfg.dynamic_address /\ AvailableAddresses(world) = {}
       THEN /\ CreateRaises(Exc("RuntimeError", "address_lookup"))
            /\ UNCHANGED <<world, envCall>>
       ELSE \E address \in IF scenario.cfg.dynamic_address
                          THEN AvailableAddresses(world) ELSE {"xml"} :
            \E created_ok \in BOOLEAN :
              /\ envCall' = CreateCall(
                     IF created_ok THEN envCall.counter
                     ELSE envCall.counter + 1,
                     envCall.attempts + 1, address)
              /\ IF created_ok
                 THEN /\ world' = world \cup {address}
                      /\ envPc' = "idle"
                      /\ envRet' = Ret("create", NoExc, "network", envState)
                 ELSE /\ UNCHANGED world
                      /\ IF envCall.counter > scenario.max_attempts
                         THEN CreateRaises(Exc("RuntimeError", "create"))
                         ELSE UNCHANGED <<envPc, envRet>>

\* a hypervisor with some networks active already
NetworkInit ==
    /\ scenario \in [cfg : NetworkConfigurations, max_attempts : AttemptLimits]
    /\ world \in SUBSET AddressPool
    /\ env_hookmanager = NoneManager
    /\ env_context = NoneContext
    /\ envPc = "idle"
    /\ envCall = CreateCall(0, 0, "")
    /\ envOps = 1
    /\ scope = NoScope
    /\ envState = "new"
    /\ envRet = Ret("", NoExc, "None", "new")
    /\ factoryLog = NoFactoryCall
    /\ cleanLog = <<>>
    /\ created = {}
    /\ HooksLoaded(<<>>)
    /\ ThreadsInit
    /\ opsLeft = <<0, 0>>
    /\ domState = NOSTATE
    /\ cmds = <<>>

NetworkNext == CallCreate \/ CreateAttempt

SpecNetwork == NetworkInit /\ [][NetworkNext]_vars

(***************************************************************************)
(* The image providers: GlanceProvider.image and S3Provider.image with a   *)
(* configured path that is a directory. The images of the name are         *)
(* numbered by the time of their last update, the newest last; the file of *)
(* an image in the directory is named by its number.                       *)
(***************************************************************************)
ImageProviders == {"Glance", "S3"}

\* image.status of the images Glance lists; the versions of an S3 object
\* have none and are all listed
ImageStatuses == {"active", "deactivated", "queued"}

\* a file of the directory: the image it is named by, and whether it is
\* the '.part' file of a download
File(id, part) == [id |-> id, part |-> part]

\* the lists of images of one name the service may give
ImageLists(provider) ==
    UNION {[1..n -> IF provider = "Glance" THEN ImageStatuses ELSE {"active"}] :
               n \in 1..MaxImages}

\* _retrieve_metadata: the newest active image, 0 when there is none
\* (FileNotFoundError); ObjectSummary: the current version of the object
RECURSIVE RetrieveMetadata(_, _)
RetrieveMetadata(images, i) ==
    IF i = 0 THEN 0
    ELSE IF images[i] = "active" THEN i
    ELSE RetrieveMetadata(images, i - 1)

\* _find_potentials and the loop of image on it: the newest image that is
\* not active and whose file exists, 0 when there is none
RECURSIVE FindPotential(_, _, _)
FindPotential(images, files, i) ==
    IF i = 0 THEN 0
    ELSE IF images[i] # "active" /\ File(i, FALSE) \in files THEN i
    ELSE FindPotential(images, files, i - 1)

\* _older_image of the two providers, from the i-th image down: Glance
\* takes the newest active or deactivated image whose file exists, S3 the
\* newest version whose file exists and is not the target; 0 when there is
\* none (FileNotFoundError)
RECURSIVE OlderImage(_, _, _, _, _)
OlderImage(provider, images, files, target, i) ==
    IF i = 0 THEN 0
    ELSE IF /\ File(i, FALSE) \in files
            /\ provider = "Glance" => images[i] \in {"active", "deactivated"}
            /\ provider = "S3" => i # target
         THEN i
         ELSE OlderImage(provider, images, files, target, i - 1)

\* how the download of an image may end: the checksum of the file matches,
\* it does not, or (S3) the client raises ClientError
DownloadOutcomes(provider) ==
    {"ok", "checksum"} \cup (IF provider = "S3" THEN {"ClientError"} ELSE {})

\* a resolution: the target, the downloads started and how it ended
Resolution(target, downloads, e, value, files) ==
    [target |-> target, downloads |-> downloads, exc |-> e, value |-> value,
     files |-> files]

\* a _download_image that leaves the '.part' file of a download whose
\* checksum does not match
DownloadImageKeepsPart(provider, images, files, target, outcome) ==
    IF File(target, TRUE) \in files \/ File(target, FALSE) \in files
    THEN Resolution(target, 0, NoExc, target, files)
    ELSE IF outcome = "ok"
    THEN Resolution(target, 1, NoExc, target, files \cup {File(target, FALSE)})
    ELSE Resolution(target, 1, Exc("RuntimeError", "checksum"), 0,
                    files \cup {File(target, TRUE)})

\* _download_image(metadata, target)
DownloadImage(provider, images, files, target, outcome) ==
    IF File(target, TRUE) \in files
    THEN LET older == OlderImage(provider, images, files, target, Len(images))
         IN IF older = 0
            THEN Resolution(target, 0, Exc("FileNotFoundError", "_older_image"),
                            0, files)
            ELSE Resolution(target, 0, NoExc, older, files)
    ELSE IF File(target, FALSE) \in files
    THEN Resolution(target, 0, NoExc, target, files)
    ELSE CASE outcome = "ok" ->
                Resolution(target, 1, NoExc, target,
                           files \cup {File(target, FALSE)})
           [] outcome = "checksum" ->
                Resolution(target, 1, Exc("RuntimeError", "checksum"), 0, files)
           [] outcome = "ClientError" ->
                Resolution(target, 1, Exc("FileNotFoundError", "download_file"),
                           0, files)

\* provider.image
ProviderImage(provider, images, files, outcome) ==
    LET metadata == RetrieveMetadata(images, Len(images)) IN
    IF metadata = 0
    THEN LET tgt == FindPotential(images, files, Len(images)) IN
         IF tgt = 0
         THEN Resolution(0, 0, Exc("FileNotFoundError", "_retrieve_metadata"),
                         0, files)
         ELSE Resolution(0, 0, NoExc, tgt, files)
    ELSE DownloadImage(provider, images, files, metadata, outcome)

\* the Resources read provider_image
ResolveImage ==
    /\ envPc = "idle" /\ envOps > 0
    /\ envOps' = envOps - 1
    /\ \E outcome \in DownloadOutcomes(scenario.provider) :
         LET res == ProviderImage(scenario.provider, scenario.images, world,
                                  outcome)
         IN /\ world' = res.files
            /\ envCall' = [op |-> "image", target |-> res.target,
                           downloads |-> res.downloads,
                           outcome |-> IF res.downloads = 0 THEN "none"
                                       ELSE outcome]
            /\ envRet' = Ret("image", res.exc, res.value, envState)
    /\ UNCHANGED <<scenario, env_context, env_hookmanager, envPc, scope,
                   envState, factoryLog, cleanLog, created>>
    /\ UNCHANGED <<busVars, cmds, domState, roundTrip>>

\* the directory holds files, whole or '.part', of images that are or were
\* active
ImagesInit ==
    /\ scenario \in
           {sc \in [provider : ImageProviders,
                    images : UNION {ImageLists(p) : p \in ImageProviders}] :
               sc.images \in ImageLists(sc.provider)}
    /\ world \in SUBSET {File(i, part) : i \in 1..Len(scenario.images),
                                         part \in BOOLEAN}
    /\ \A f \in world : scenario.images[f.id] # "queued"
    /\ env_hookmanager = NoneManager
    /\ env_context = NoneContext
    /\ envPc = "idle"
    /\ envCall = [op |-> "", target |-> 0, downloads |-> 0, outcome |-> "none"]
    /\ envOps = 2
    /\ scope = NoScope
    /\ envState = "new"
    /\ envRet = Ret("", NoExc, 0, "new")
    /\ factoryLog = NoFactoryCall
    /\ cleanLog = <<>>
    /\ created = {}
    /\ HooksLoaded(<<>>)
    /\ ThreadsInit
    /\ opsLeft = <<0, 0>>
    /\ domState = NOSTATE
    /\ cmds = <<>>

ImagesNext == ResolveImage

SpecImages == ImagesInit /\ [][ImagesNext]_vars

(***************************************************************************)
(* verify_etag: the file is read in chunks of 8 MiB, all of them full but  *)
(* the last; bytes are sequences of symbols and MD5 is a function that     *)
(* maps different bytes to different digests.                              *)
(***************************************************************************)
\* what f.read(chunk_size) may return before the end of the file
ChunkData == {<<"a">>, <<"b">>, <<"c">>}

\* the files: the chunks they are read in, none for an empty file
ChunkedFiles == UNION {[1..n -> ChunkData] : n \in 0..MaxChunks}

\* the bytes of a sequence of pieces, one after the other
RECURSIVE Concat(_)
Concat(pieces) ==
    IF pieces = <<>> THEN <<>> ELSE Head(pieces) \o Concat(Tail(pieces))

\* hashlib.md5(data).digest()
MD5(data) == <<"md5(">> \o data \o <<")">>

\* .hexdigest(): the digest written in hexadecimal digits
HexDigest(digest) == <<"hex(">> \o digest \o <<")">>

\* '{}-{}'.format(hexdigest, chunk_count)
MultipartTag(hexdigest, chunk_count) ==
    hexdigest \o <<"-", ToString(chunk_count)>>

\* the stream of verify_etag: the digests of the chunks, one after the other
DigestStream(chunks) == Concat([i \in 1..Len(chunks) |-> MD5(chunks[i])])

\* verify_etag(path, etag)
verify_etag(chunks, etag) ==
    LET chunk_count == Len(chunks)
        stream == DigestStream(chunks)
    IN IF chunk_count > 1
       THEN MultipartTag(HexDigest(MD5(stream)), chunk_count) = etag
       ELSE HexDigest(MD5(stream)) = etag

\* the tags the object store may give for a file: the MD5 of its contents,
\* the MD5 of the digests of its chunks, with and without the count
TagsOf(chunks) ==
    { HexDigest(MD5(Concat(chunks))),
      HexDigest(MD5(DigestStream(chunks))),
      MultipartTag(HexDigest(MD5(DigestStream(chunks))), Len(chunks)) }

\* S3Provider._download_image calls verify_etag(partfile, etag)
VerifyEtag ==
    /\ envPc = "idle" /\ envOps > 0
    /\ envOps' = envOps - 1
    /\ envCall' = [op |-> "verify_etag"]
    /\ envRet' = Ret("verify_etag", NoExc,
                     verify_etag(scenario.chunks, scenario.etag), envState)
    /\ UNCHANGED <<scenario, env_context, env_hookmanager, world, envPc,
                   scope, envState, factoryLog, cleanLog, created>>
    /\ UNCHANGED <<busVars, cmds, domState, roundTrip>>

\* a downloaded file and the tag of the object, which may be the tag of
\* another file
EtagInit ==
    /\ scenario \in [chunks : ChunkedFiles,
                     etag : UNION {TagsOf(f) : f \in ChunkedFiles}]
    /\ world = {}
    /\ env_hookmanager = NoneManager
    /\ env_context = NoneContext
    /\ envPc = "idle"
    /\ envCall = [op |-> ""]
    /\ envOps = 1
    /\ scope = NoScope
    /\ envState = "new"
    /\ envRet = Ret("", NoExc, FALSE, "new")
    /\ factoryLog = NoFactoryCall
    /\ cleanLog = <<>>
    /\ created = {}
    /\ HooksLoaded(<<>>)
    /\ ThreadsInit
    /\ opsLeft = <<0, 0>>
    /\ domState = NOSTATE
    /\ cmds = <<>>

EtagNext == VerifyEtag

SpecEtag == EtagInit /\ [][EtagNext]_vars

(***************************************************************************)
(* The Environment torn down while the handlers of its hooks run.  The     *)
(* embedder triggers events on the context of an allocated Environment     *)
(* and then calls deallocate; asynchronous() starts one daemon thread a    *)
(* handler, and neither deallocate nor cleanup joins a thread.             *)
(***************************************************************************)
\* the subscriptions of the hooks of the Environment that is torn down
TeardownSubscriptions ==
    SelectSeq(HookSubscriptions, LAMBDA s : s.ev # "mutate")

\* the embedder's thread calls context.trigger(ev) in the body of its with
TeardownTrigger(ev, pay) ==
    /\ envPc = "idle" /\ envState = "allocated"
    /\ ev # "mutate"
    /\ CallTrigger(1, ev, pay)

\* the embedder's thread, back from its triggers, calls deallocate
TeardownDeallocate == ~Busy(1) /\ envState = "allocated" /\ CallDeallocate

TeardownInit ==
    /\ env_hookmanager = HookManager(<<"TestHook">>)
    /\ envPc = "idle"
    /\ envCall = [op |-> "", hooks |-> <<>>, context |-> "None", state |-> "new"]
    /\ scope = NoScope
    /\ envState = "allocated"
    /\ envRet = Ret("", NoExc, "None", "new")
    /\ factoryLog = NoFactoryCall
    /\ cleanLog = <<>>
    /\ created = {}
    /\ envOps = 1
    /\ scenario \in {sc \in Scenarios :
                        sc.factory \in {"QEMU", "VBox"}
                        /\ sc.hooks = <<"TestHook", "WrongHook">>}
    /\ LET f == ContextFactory(scenario.factory, {}, scenario.cfg, 0, {})
       IN /\ f.exc = NoExc
          /\ env_context = f.context
          /\ world = f.w
    /\ HooksLoaded(TeardownSubscriptions)
    /\ ThreadsInit
    /\ opsLeft = <<MaxOps, 0>>
    /\ domState = NOSTATE
    /\ cmds = <<>>

TeardownNext ==
    \/ \E ev \in Events, pay \in Payloads : TeardownTrigger(ev, pay)
    \/ \E t \in Threads : TriggerAcquire(t)
    \/ \E t \in Threads : TriggerAsync(t)
    \/ \E t \in Threads : TriggerSync(t)
    \/ \E t \in Threads : Synchronous(t)
    \/ \E t \in Threads : Unwind(t)
    \/ TeardownDeallocate
    \/ CleanupHooks
    \/ CleanupContext
    \/ DeallocateReturns

SpecTeardown == TeardownInit /\ [][TeardownNext]_vars

(***************************************************************************)
(* The shared folders of the LXC driver.  domain_create reads the          *)
(* 'filesystem' key of the configuration of the domain and makes one       *)
(* directory a mount; cleanup reads the 'filesystem' key of the            *)
(* configuration of the resources.                                         *)
(***************************************************************************)
\* a 'filesystem' value: none, one descriptor, or a list of descriptors
FilesystemForms == {"none", "single", "list"}

\* the descriptors of a 'filesystem' value, by their source_path
Mounts(form) ==
    CASE form = "none" -> <<>>
      [] form = "single" -> <<"/bar">>
      [] form = "list" -> <<"/bar", "/dead">>

\* os.path.join(mount['source_path'], identifier), the identifier being foo
JoinIdentifier(source_path) ==
    CASE source_path = "/bar" -> "/bar/foo"
      [] source_path = "/dead" -> "/dead/foo"

MountDirectories == {JoinIdentifier(p) : p \in {"/bar", "/dead"}}

\* the configurations given to LXCResources: 'filesystem' in
\* configuration['domain'], 'filesystem' in configuration, 'network' in
\* configuration
LXCConfigurations ==
    [domain : FilesystemForms, resources : FilesystemForms, network : BOOLEAN]

\* domain_create: mounts.append(mountpoint(mount, identifier)) for the one
\* descriptor or for each of the list, os.makedirs making the directory
RECURSIVE Mountpoints(_, _, _)
Mountpoints(mounts, i, w) ==
    IF i > Len(mounts) THEN w
    ELSE Mountpoints(mounts, i + 1, w \cup {JoinIdentifier(mounts[i])})

\* LXCResources._initialize; failAt: the call to libvirt that raises
LXCInitialize(cfg, failAt) ==
    LET none == Resources("LXC")
        opened == [none EXCEPT !.hypervisor = TRUE]
        net == IF cfg.network THEN [opened EXCEPT !.network = TRUE] ELSE opened
        wnet == {"connection"} \cup (IF cfg.network THEN {"network"} ELSE {})
        mounted == Mountpoints(Mounts(cfg.domain), 1, wnet)
    IN CASE failAt = 1 -> Outcome(none, {}, Exc("libvirtError", "open"))
         [] failAt = 2 /\ cfg.network ->
              Outcome(opened, {"connection"}, Exc("RuntimeError", "network"))
         [] failAt = 3 -> Outcome(net, mounted, Exc("libvirtError", "domain"))
         [] OTHER -> Outcome([net EXCEPT !.domain = TRUE],
                             mounted \cup {"domain"}, NoExc)

\* domain_delete(domain, logger, filesystem): the failures of libvirt and of
\* rmtree are logged
LXCDomainDelete(w, filesystem, relFail) ==
    LET w1 == IF "domain" \in relFail THEN w ELSE w \ {"domain"}
    IN IF filesystem # "None" /\ filesystem \in w1 /\ "rmtree" \notin relFail
       THEN w1 \ {filesystem}
       ELSE w1

\* LXCResources.cleanup: indexing the list of descriptors with
\* 'source_path' raises TypeError before anything is released
LXCCleanup(r, w, cfg, relFail) ==
    IF r.domain /\ cfg.resources = "list"
    THEN Outcome(r, w, Exc("TypeError", "filesystem"))
    ELSE LET filesystem == IF r.domain /\ cfg.resources = "single"
                           THEN JoinIdentifier(Mounts(cfg.resources)[1])
                           ELSE "None"
             w1 == IF r.domain THEN LXCDomainDelete(w, filesystem, relFail)
                   ELSE w
             w2 == IF r.network /\ "network" \notin relFail
                   THEN w1 \ {"network"} ELSE w1
             w3 == IF r.hypervisor /\ "connection" \notin relFail
                   THEN w2 \ {"connection"} ELSE w2
         IN Outcome(r, w3, NoExc)

\* the failures of the calls that release
LXCReleaseFailures ==
    {{}, {"rmtree"}, {"domain"}, {"network", "connection"}}

\* LXCResources(identifier, configuration)
ConstructLXC ==
    /\ envPc = "idle" /\ envState = "new"
    /\ \E failAt \in 0..3 :
         LET o == LXCInitialize(scenario, failAt)
         IN /\ env_context' = o.r
            /\ world' = o.w
            /\ created' = o.w \cap MountDirectories
            /\ envRet' = Ret("construct", o.exc, "None", envState)
            /\ envCall' = [op |-> "construct", failAt |-> failAt]
    /\ envState' = "allocated"
    /\ UNCHANGED <<scenario, env_hookmanager, envPc, envOps, scope, factoryLog,
                   cleanLog>>
    /\ UNCHANGED <<busVars, cmds, domState, roundTrip>>

\* resources.deallocate(), inherited from Resources, or resources.cleanup()
ReleaseLXC(op) ==
    /\ envPc = "idle" /\ envState \in {"allocated", "deallocated"}
    /\ envOps > 0
    /\ envOps' = envOps - 1
    /\ \E relFail \in LXCReleaseFailures :
         LET o == IF op = "deallocate"
                  THEN Deallocate("LXC", env_context, world, scenario, relFail)
                  ELSE LXCCleanup(env_context, world, scenario, relFail)
         IN /\ world' = o.w
            /\ envRet' = Ret(op, o.exc, "None", envState)
            /\ envCall' = [op |-> op, failAt |-> 0]
            /\ cleanLog' = Append(cleanLog, [op |-> op, failed |-> relFail])
    /\ envState' = "deallocated"
    /\ UNCHANGED <<scenario, env_context, env_hookmanager, envPc, scope,
                   factoryLog, created>>
    /\ UNCHANGED <<busVars, cmds, domState, roundTrip>>

LXCInit ==
    /\ scenario \in LXCConfigurations
    /\ env_context = Resources("LXC")
    /\ env_hookmanager = NoneManager
    /\ world = {}
    /\ envPc = "idle"
    /\ envCall = [op |-> "", failAt |-> 0]
    /\ envOps = MaxEnvOps
    /\ scope = NoScope
    /\ envState = "new"
    /\ envRet = Ret("", NoExc, "None", "new")
    /\ factoryLog = NoFactoryCall
    /\ cleanLog = <<>>
    /\ created = {}
    /\ HooksLoaded(<<>>)
    /\ ThreadsInit
    /\ opsLeft = <<0, 0>>
    /\ domState = NOSTATE
    /\ cmds = <<>>

LXCNext ==
    \/ ConstructLXC
    \/ \E op \in {"deallocate", "cleanup"} : ReleaseLXC(op)

SpecLXC == LXCInit /\ [][LXCNext]_vars

(***************************************************************************)
(* QEMUResources.allocate and deallocate, statement by statement, with     *)
(* the order in which the objects of the back-end appear and disappear.    *)
(***************************************************************************)
\* releases in the order of the acquisitions
QEMUDeallocateForwards == <<"hypervisor", "pool", "network", "domain">>

\* the releases of QEMUResources.deallocate, in order
QEMUDeallocateSteps == <<"domain", "network", "pool", "hypervisor">>

\* one statement of QEMUResources.deallocate
QEMUDeallocateStep(name, r, w, cfg, relFail) ==
    CASE name = "domain" -> DomainDelete(r, w, cfg, relFail)
      [] name = "network" -> NetworkDelete(r, w, cfg, relFail)
      [] name = "pool" -> StoragePoolDelete(r, w, cfg, relFail)
      [] name = "hypervisor" -> HypervisorDelete(r, w, cfg, relFail)

\* the objects of the back-end, as allocate makes them and as one release
\* removes them: pool_delete deletes the volumes before it destroys the pool
AcquireOrder == <<"connection", "pool", "network", "volume", "domain">>

ReleaseOrder == <<"domain", "network", "volume", "pool", "connection">>

\* the objects of s, in the order given
InOrder(order, s) == SelectSeq(order, LAMBDA x : x \in s)

\* what exists before the allocation: the network the XML of the domain
\* names, and the pool that holds the image, which pool_lookup may find
ExistingObjects(cfg) ==
    { s \in SUBSET {"network", "pool"} :
        /\ "network" \in s <=> cfg.attached
        /\ "pool" \in s => ~cfg.clone }

\* the embedder calls resources.allocate()
CallQEMUAllocate ==
    /\ envPc = "idle" /\ envState = "new"
    /\ \E failAt \in 0..Len(QEMUAllocateSteps) :
         envCall' = [op |-> "allocate", i |-> 1, failAt |-> failAt,
                     relFail |-> {}]
    /\ envPc' = "allocate"
    /\ UNCHANGED <<scenario, env_context, env_hookmanager, world, envOps,
                   scope, envState, envRet, factoryLog, cleanLog, created>>
    /\ UNCHANGED <<busVars, cmds, domState, roundTrip>>

\* the next statement of allocate; an exception leaves the call.  A pool
\* that is not there cannot be looked up.
QEMUAllocateStatement ==
    /\ envPc = "allocate"
    /\ LET i == envCall.i
           name == QEMUAllocateSteps[i]
           missing == name = "pool" /\ ~scenario.clone /\ "pool" \notin world
           o == QEMUAllocateStep(name, env_context, world, scenario,
                                 envCall.failAt = i \/ missing)
       IN /\ env_context' = o.r
          /\ world' = o.w
          /\ factoryLog' = factoryLog \o InOrder(AcquireOrder, o.w \ world)
          /\ IF o.exc # NoExc \/ i = Len(QEMUAllocateSteps)
             THEN /\ envPc' = "idle"
                  /\ envState' = "allocated"
                  /\ envRet' = Ret("allocate", o.exc, "None", envState)
                  /\ UNCHANGED envCall
             ELSE /\ envCall' = [envCall EXCEPT !.i = i + 1]
                  /\ UNCHANGED <<envPc, envState, envRet>>
    /\ UNCHANGED <<scenario, env_hookmanager, envOps, scope, cleanLog, created>>
    /\ UNCHANGED <<busVars, cmds, domState, roundTrip>>

\* the embedder calls resources.deallocate()
CallQEMUDeallocate ==
    /\ envPc = "idle" /\ envState \in {"allocated", "deallocated"}
    /\ envOps > 0
    /\ envOps' = envOps - 1
    /\ \E relFail \in ReleaseFailures(env_context, scenario) :
         envCall' = [op |-> "deallocate", i |-> 1, failAt |-> 0,
                     relFail |-> relFail]
    /\ envPc' = "deallocate"
    /\ cleanLog' = <<>>
    /\ UNCHANGED <<scenario, env_context, env_hookmanager, world, scope,
                   envState, envRet, factoryLog, created>>
    /\ UNCHANGED <<busVars, cmds, domState, roundTrip>>

\* the next statement of deallocate
QEMUDeallocateStatement ==
    /\ envPc = "deallocate"
    /\ LET i == envCall.i
           w == QEMUDeallocateStep(QEMUDeallocateSteps[i], env_context, world,
                                   scenario, envCall.relFail)
       IN /\ world' = w
          /\ cleanLog' = cleanLog \o InOrder(ReleaseOrder, world \ w)
          /\ IF i = Len(QEMUDeallocateSteps)
             THEN /\ envPc' = "idle"
                  /\ envState' = "deallocated"
                  /\ envRet' = Ret("deallocate", NoExc, "None", envState)
                  /\ UNCHANGED envCall
             ELSE /\ envCall' = [envCall EXCEPT !.i = i + 1]
                  /\ UNCHANGED <<envPc, envState, envRet>>
    /\ UNCHANGED <<scenario, env_context, env_hookmanager, envOps, scope,
                   factoryLog, created>>
    /\ UNCHANGED <<busVars, cmds, domState, roundTrip>>

QEMUInit ==
    /\ scenario \in ConfigurationsOf("QEMU")
    /\ env_context = Resources("QEMU")
    /\ env_hookmanager = NoneManager
    /\ world \in ExistingObjects(scenario)
    /\ created = world
    /\ envPc = "idle"
    /\ envCall = [op |-> "", i |-> 0, failAt |-> 0, relFail |-> {}]
    /\ envOps = MaxEnvOps
    /\ scope = NoScope
    /\ envState = "new"
    /\ envRet = Ret("", NoExc, "None", "new")
    /\ factoryLog = <<>>
    /\ cleanLog = <<>>
    /\ HooksLoaded(<<>>)
    /\ ThreadsInit
    /\ opsLeft = <<0, 0>>
    /\ domState = NOSTATE
    /\ cmds = <<>>

QEMUNext ==
    \/ CallQEMUAllocate
    \/ QEMUAllocateStatement
    \/ CallQEMUDeallocate
    \/ QEMUDeallocateStatement

SpecQEMU == QEMUInit /\ [][QEMUNext]_vars

(***************************************************************************)
(* Two resolver processes in _download_image for the same image and the    *)
(* same target, statement by statement.  The processes share the           *)
(* directory of the target and nothing else; the code takes no lock.       *)
(***************************************************************************)
Resolvers == {1, 2}

\* the statements of _download_image in which the '.part' file is being
\* downloaded, verified and renamed or removed
Downloading == {"write", "verify", "rename", "remove"}

\* how a resolver left _download_image
Resolved(value, e) == [value |-> value, exc |-> e]

\* resolver p goes to the statement pc
Goto(p, pc) == envPc' = [envPc EXCEPT ![p] = pc]

\* resolver p returns value or raises e
Leave(p, value, e) ==
    /\ Goto(p, "done")
    /\ envRet' = [envRet EXCEPT ![p] = Resolved(value, e)]

\* the variables no resolver changes
ResolversFrame ==
    /\ UNCHANGED <<scenario, env_context, env_hookmanager, envOps, scope,
                   envState, factoryLog, cleanLog, created>>
    /\ UNCHANGED <<busVars, cmds, domState, roundTrip>>

\* if os.path.exists(partfile): return _older_image()
CheckPartfile(p) ==
    /\ envPc[p] = "check_part"
    /\ IF "part" \in world
       THEN Leave(p, "older", NoExc)
       ELSE Goto(p, "check_target") /\ UNCHANGED envRet
    /\ UNCHANGED <<world, envCall>>
    /\ ResolversFrame

\* if not os.path.exists(target): ... return target
CheckTarget(p) ==
    /\ envPc[p] = "check_target"
    /\ IF "target" \in world
       THEN Leave(p, "target", NoExc)
       ELSE Goto(p, "open") /\ UNCHANGED envRet
    /\ UNCHANGED <<world, envCall>>
    /\ ResolversFrame

\* with open(partfile, 'wb') as imagefile: the file is made, or truncated
OpenPartfile(p) ==
    /\ envPc[p] = "open"
    /\ world' = world \cup {"part"}
    /\ envCall' = [envCall EXCEPT ![p] = 0]
    /\ Goto(p, "write")
    /\ UNCHANGED envRet
    /\ ResolversFrame

\* for chunk in img_downloader: imagefile.write(chunk)
WriteChunk(p) ==
    /\ envPc[p] = "write"
    /\ IF envCall[p] < MaxChunks
       THEN envCall' = [envCall EXCEPT ![p] = @ + 1] /\ UNCHANGED envPc
       ELSE Goto(p, "verify") /\ UNCHANGED envCall
    /\ UNCHANGED <<world, envRet>>
    /\ ResolversFrame

\* if not verify_checksum(partfile, img_metadata.checksum): a file that is
\* no longer there cannot be read
VerifyPartfile(p) ==
    /\ envPc[p] = "verify"
    /\ IF "part" \notin world
       THEN Leave(p, "None", Exc("FileNotFoundError", "verify"))
       ELSE /\ \E ok \in BOOLEAN : Goto(p, IF ok THEN "rename" ELSE "remove")
            /\ UNCHANGED envRet
    /\ UNCHANGED <<world, envCall>>
    /\ ResolversFrame

\* os.rename(partfile, target); return target
RenamePartfile(p) ==
    /\ envPc[p] = "rename"
    /\ IF "part" \in world
       THEN /\ world' = (world \ {"part"}) \cup {"target"}
            /\ Leave(p, "target", NoExc)
       ELSE /\ Leave(p, "None", Exc("FileNotFoundError", "rename"))
            /\ UNCHANGED world
    /\ UNCHANGED envCall
    /\ ResolversFrame

\* os.remove(partfile); raise RuntimeError('Checksum failure...')
RemovePartfile(p) ==
    /\ envPc[p] = "remove"
    /\ IF "part" \in world
       THEN /\ world' = world \ {"part"}
            /\ Leave(p, "None", Exc("RuntimeError", "checksum"))
       ELSE /\ Leave(p, "None", Exc("FileNotFoundError", "remove"))
            /\ UNCHANGED world
    /\ UNCHANGED envCall
    /\ ResolversFrame

ResolversInit ==
    /\ scenario \in ImageProviders
    /\ world \in SUBSET {"part", "target"}
    /\ envPc = [p \in Resolvers |-> "check_part"]
    /\ envCall = [p \in Resolvers |-> 0]
    /\ envRet = [p \in Resolvers |-> Resolved("None", NoExc)]
    /\ env_context = NoneContext
    /\ env_hookmanager = NoneManager
    /\ envOps = 0
    /\ scope = NoScope
    /\ envState = "new"
    /\ factoryLog = NoFactoryCall
    /\ cleanLog = <<>>
    /\ created = {}
    /\ HooksLoaded(<<>>)
    /\ ThreadsInit
    /\ opsLeft = <<0, 0>>
    /\ domState = NOSTATE
    /\ cmds = <<>>

ResolversNext ==
    \E p \in Resolvers :
        \/ CheckPartfile(p)
        \/ CheckTarget(p)
        \/ OpenPartfile(p)
        \/ WriteChunk(p)
        \/ VerifyPartfile(p)
        \/ RenamePartfile(p)
        \/ RemovePartfile(p)

SpecResolvers == ResolversInit /\ [][ResolversNext]_vars

(***************************************************************************)
(* A SeeContext whose verbs two threads of the embedder call at the same   *)
(* time.  No hook is loaded and the guest does nothing by itself: the      *)
(* state of the domain changes with the commands of the verbs only.        *)
(***************************************************************************)
VerbsInit ==
    /\ HooksLoaded(<<>>)
    /\ ThreadsInit
    /\ opsLeft = <<MaxOps, MaxOps>>
    /\ domState \in DomainStates
    /\ cmds = <<>>
    /\ NoEnvironment

VerbsNext ==
    \/ \E t \in Clients, verb \in Verbs, tmo \in Timeouts :
           CallVerb(t, verb, "none", tmo)
    \/ \E t \in Threads : AssertTransition(t)
    \/ \E t \in Threads : ExecuteCommand(t)
    \/ \E t \in Threads : WaitForShutdown(t)
    \/ \E t \in Threads : CommandReturn(t)
    \/ \E t \in Threads : TriggerAcquire(t)
    \/ \E t \in Threads : TriggerAsync(t)
    \/ \E t \in Threads : TriggerSync(t)
    \/ \E t \in Threads : Unwind(t)

SpecVerbs == VerbsInit /\ [][VerbsNext]_vars

(***************************************************************************)
(* The Environment allocated and deallocated in any order: allocate does   *)
(* not look at what a call before it has left in _context.                 *)
(***************************************************************************)
\* the embedder calls environment.allocate(), whatever the calls before it
CallAllocateAnyState ==
    /\ CanCallEnv
    /\ envPc' = "factory"
    /\ envCall' = Call("allocate")
    /\ envOps' = envOps - 1
    /\ UNCHANGED <<scenario, env_context, env_hookmanager, world, scope,
                   envState, envRet, factoryLog, cleanLog, created>>
    /\ UNCHANGED <<busVars, cmds, domState, roundTrip>>

AnyOrderNext ==
    \/ CallAllocateAnyState
    \/ AllocateContext
    \/ AllocateHooks
    \/ CallDeallocate
    \/ CleanupHooks
    \/ CleanupContext
    \/ DeallocateReturns

SpecAnyOrder == EnvSpecInit /\ [][AnyOrderNext]_vars

(***************************************************************************)
(* Properties of the Observable.                                           *)
(***************************************************************************)
DispatchIds == 1..Len(disp)

\* the handlers a dispatch has called synchronously, in the order of the calls
DeliveredHandlers(d) == [i \in 1..Len(d.dlv) |-> d.dlv[i].h]

\* C1: an exception raised by a handler, synchronous or asynchronous, never
\* reaches the caller of trigger, which returns normally, and never keeps
\* the other handlers of the event from being called: a dispatch whose
\* lists were left as it found them has called every synchronous handler
\* and started every asynchronous one.
C1_HandlerFailureIsolated ==
    \A id \in DispatchIds :
        LET d == disp[id] IN
        /\ d.ret \in {"pending", "none"}
        /\ (d.ret = "none" /\ Get(sync_handlers, d.ev) = d.snap)
               => DeliveredHandlers(d) = d.snap
        /\ (d.ret = "none" /\ Get(async_handlers, d.ev) = d.asnap)
               => d.nasync = Len(d.asnap)

\* a trigger that returned normally after its first synchronous handler
\* raised, its second one ran and its raising asynchronous handler was called
C1_Witness ==
    \E id \in DispatchIds :
        LET d == disp[id] IN
        /\ d.ret = "none"
        /\ Len(d.dlv) = 2
        /\ d.dlv[1].x = "Exception"
        /\ d.dlv[2].x = "none"
        /\ d.adlv = <<"error_handler">>

\* C9: the synchronous handlers of an event are called in the order of their
\* registration, on the thread that called trigger, and each has returned
\* when trigger returns.
C9_SyncInRegistrationOrder ==
    \A id \in DispatchIds :
        LET d == disp[id] IN
        /\ \A i \in 1..Len(d.dlv) : d.dlv[i].t = d.t
        /\ \A i, j \in 1..Len(d.dlv) : i < j => d.dlv[i].st < d.dlv[j].st
        /\ d.ret # "pending" => \A i \in 1..Len(d.dlv) : d.dlv[i].x # "run"

\* a trigger that returned after calling two handlers in turn
C9_Witness ==
    \E id \in DispatchIds :
        LET d == disp[id] IN
        /\ d.ret = "none"
        /\ Len(d.dlv) = 2
        /\ d.dlv[1].st < d.dlv[2].st
        /\ d.dlv[1].t = d.t /\ d.dlv[2].t = d.t

\* no thread is inside a call
Quiescent == \A t \in Threads : ~Busy(t)

\* C10: handlers calling subscribe, unsubscribe or trigger on the Observable
\* that runs them never deadlock: every call made, nested in a synchronous
\* handler or made from the thread of an asynchronous one, comes to its end,
\* and every trigger returns normally.
C10_NoDeadlock ==
    <>[](Quiescent /\ \A id \in DispatchIds : disp[id].ret = "none")

\* the trigger nested in a synchronous handler and the trigger made by an
\* asynchronous handler have both returned, having called the handler behind
C10_Witness ==
    \E i, j, k \in DispatchIds :
        /\ disp[i].ev = "cascade" /\ disp[i].ret = "none"
        /\ disp[j].t = disp[i].t /\ disp[j].ev = "event1"
        /\ disp[j].ret = "none" /\ DeliveredHandlers(disp[j]) = <<"handler1">>
        /\ disp[k].t \notin Clients /\ disp[k].ev = "event1"
        /\ disp[k].ret = "none" /\ DeliveredHandlers(disp[k]) = <<"handler1">>

(***************************************************************************)
(* Properties of the lifecycle verbs.                                      *)
(***************************************************************************)
CommandIds == 1..Len(cmds)

\* the verbs each state of the domain may begin, as the transition map of
\* the Context is documented
C3_TransitionMap ==
    [st \in DomainStates |->
        CASE st = RUNNING -> {"pause", "poweroff", "forced_poweroff", "restart",
                              "shutdown"}
          [] st = PAUSED -> {"resume", "forced_poweroff"}
          [] st \in {SHUTDOWN, SHUTOFF, CRASHED} -> {"poweron"}
          [] st = SUSPENDED -> {"resume"}
          [] OTHER -> {}]

\* the names of the events of each verb, letter by letter
C2_EventNames ==
    [poweron |-> [pre |-> <<"p","r","e","_","p","o","w","e","r","o","n">>,
                  post |-> <<"p","o","s","t","_","p","o","w","e","r","o","n">>],
     resume |-> [pre |-> <<"p","r","e","_","r","e","s","u","m","e">>,
                 post |-> <<"p","o","s","t","_","r","e","s","u","m","e">>],
     pause |-> [pre |-> <<"p","r","e","_","p","a","u","s","e">>,
                post |-> <<"p","o","s","t","_","p","a","u","s","e">>],
     poweroff |-> [pre |-> <<"p","r","e","_","p","o","w","e","r","o","f","f">>,
                   post |-> <<"p","o","s","t","_","p","o","w","e","r","o","f","f">>],
     shutdown |-> [pre |-> <<"p","r","e","_","s","h","u","t","d","o","w","n">>,
                   post |-> <<"p","o","s","t","_","s","h","u","t","d","o","w","n">>],
     restart |-> [pre |-> <<"p","r","e","_","r","e","s","t","a","r","t">>,
                  post |-> <<"p","o","s","t","_","r","e","s","t","a","r","t">>]]

\* the method of the domain behind each verb
C2_BackEnd ==
    [poweron |-> "create", resume |-> "resume", pause |-> "suspend",
     poweroff |-> "destroy", shutdown |-> "shutdown", restart |-> "reboot"]

\* what one call of the verb has to show: pre_V with the caller's keyword
\* arguments, the method of the domain, post_V with the same arguments
C2_Sequence(verb, pay) ==
    << Seen(C2_EventNames[verb].pre, "", pay),
       Seen(<<>>, C2_BackEnd[verb], "none"),
       Seen(C2_EventNames[verb].post, "", pay) >>

C3_DisallowedRejected ==
    \A k \in CommandIds :
        LET c == cmds[k] IN
        (c.asserted /\ c.verb \notin C3_TransitionMap[c.st]) =>
            /\ c.ret \in {"pending", "RuntimeError"}
            /\ c.ret = "pending" => exc[c.t] = "RuntimeError"
            /\ c.trace = <<>>
            /\ c.op = "none"
            /\ \A id \in DispatchIds : disp[id].cmd # k

\* pause called on a paused domain has failed
C3_Witness ==
    \E k \in CommandIds :
        /\ cmds[k].verb = "pause" /\ cmds[k].asserted /\ cmds[k].st = PAUSED
        /\ cmds[k].ret = "RuntimeError"
        /\ ~Busy(cmds[k].t)

(***************************************************************************)
(* Properties of the factories and of the Environment.                     *)
(***************************************************************************)
\* what the last deallocate has cleaned so far, in the order of the calls
CleanedObjects == [i \in 1..Len(cleanLog) |-> cleanLog[i].obj]

\* what the deallocate in progress found to clean: the hooks, then the context
ToClean ==
    envCall.hooks \o
        (IF envCall.context = "None" THEN <<>> ELSE <<envCall.context>>)

\* the last call begun on the Environment is a deallocate that is over
Deallocated == envPc = "idle" /\ envCall.op \in {"deallocate", "exit"}

\* C4: when the allocation of the Resources of a context factory fails,
\* deallocate has been called on them, the exception the factory raises is
\* the one of the allocation and no Context is returned.
C4_FactoryRollsBack ==
    (factoryLog.called /\ factoryLog.allocExc # NoExc) =>
        /\ factoryLog.deallocated
        /\ factoryLog.exc = factoryLog.allocExc
        /\ factoryLog.context = "None"

C6_DeallocateContained ==
    envCall.op \in {"deallocate", "exit"} =>
        /\ envPc = "cleanup_context" => CleanedObjects = envCall.hooks
        /\ envPc \in {"drop", "idle"} => CleanedObjects = ToClean
        /\ envPc = "idle" => envState = "deallocated"
        /\ envRet.op = "deallocate" => envRet.exc = NoExc

\* the cleanups of a hook and of the context raised, the hook behind and
\* the context were cleaned all the same and deallocate returned
C6_Witness ==
    /\ Deallocated
    /\ envRet = Ret("deallocate", NoExc, "None", "allocated")
    /\ cleanLog = << Cleaned("WrongHook", Exc("KeyError", "cleanup"), {}),
                     Cleaned("TestHook", NoExc, {}),
                     Cleaned("WrongContext", Exc("KeyError", "cleanup"), {}) >>

\* C7: the with statement enters its body with the Environment allocated
\* and bound to its target; when the body is over, normally or by an
\* exception, deallocate runs to its end, and only the exception of the
\* body leaves the statement.
C7_ScopeDeallocates ==
    /\ scope.at = "in" => (envState = "allocated" /\ scope.bound = "self")
    /\ (scope.at = "out" /\ scope.entered /\ envCall.op = "exit") =>
           /\ envState = "deallocated"
           /\ env_context = NoneContext
           /\ CleanedObjects = ToClean
           /\ envRet.op = "exit" => envRet.exc = scope.body

\* a body that raised was left: the failing cleanups of the hook and of
\* the context ran and the exception of the body is the one that leaves
C7_Witness ==
    /\ scope.at = "out" /\ scope.entered
    /\ scope.body = Exc("Exception", "body")
    /\ envRet = Ret("exit", Exc("Exception", "body"), "None", "allocated")
    /\ envState = "deallocated"
    /\ CleanedObjects = <<"WrongHook", "WrongContext">>

\* C8: the context accessor returns the Context exactly when the
\* Environment is allocated, and raises RuntimeError in every other state.
C8_ContextOnlyWhileAllocated ==
    envRet.op \in {"context", "body"} =>
        IF envRet.state = "allocated"
        THEN envRet.exc = NoExc /\ envRet.value # "None"
        ELSE envRet.exc = Exc("RuntimeError", "context")

(***************************************************************************)
(* Further properties of the Observable.                                   *)
(***************************************************************************)
\* the thread t is inside the dispatch of a trigger call: past the with
\* statement, in one of the two loops or in a handler they called
Dispatching(t) ==
    \E i \in 1..Len(stack[t]) :
        stack[t][i].kind = "trigger" /\ stack[t][i].pc \in {"async", "sync"}

\* C17: the synchronous dispatches of one Observable are serialized: no two
\* threads are inside the dispatch of a trigger call at the same time, and
\* the thread that is inside owns the trigger lock.
C17_DispatchSerialized ==
    \A t, u \in Threads :
        /\ (Dispatching(t) /\ Dispatching(u)) => t = u
        /\ Dispatching(t) => trigger_mutex.owner = t

\* a thread waits at the lock of trigger while another thread is running a
\* synchronous handler of its own trigger
C17_Witness ==
    \E t, u \in Threads :
        /\ t # u
        /\ Dispatching(t) /\ Top(t).kind = "synchronous" /\ Top(t).mode = "sync"
        /\ Busy(u) /\ Top(u).kind = "trigger" /\ Top(u).pc = "acquire"

\* C11: a dispatch calls exactly the handlers that were subscribed when it
\* began: while it runs, the synchronous handlers it has called are the
\* beginning of the list it found, and when it has returned it has called
\* that list, no more and no less, and started one thread for each
\* asynchronous handler it found, whatever was subscribed or unsubscribed
\* in the meantime.
C11_DispatchSnapshot ==
    \A id \in DispatchIds :
        LET d == disp[id] IN
        /\ Len(d.dlv) <= Len(d.snap)
        /\ DeliveredHandlers(d) = SubSeq(d.snap, 1, Len(d.dlv))
        /\ d.ret = "none" =>
               (DeliveredHandlers(d) = d.snap /\ d.nasync = Len(d.asnap))

\* the handlers something in the run may unsubscribe
Unsubscribable ==
    {s.h : s \in MutatingClientSubscriptions}
        \cup {Behaviour(h).h : h \in {g \in Handlers :
                                        Behaviour(g).act = "unsubscribe"}}

\* the synchronous registrations the hooks made that are never unsubscribed
Permanent ==
    {i \in 1..Len(MutatingSubscriptions) :
        /\ MutatingSubscriptions[i].mode = "sync"
        /\ MutatingSubscriptions[i].h \notin Unsubscribable}

\* the calls of trigger(ev) made so far, and those that have returned
TriggersOf(ev) == {id \in DispatchIds : disp[id].ev = ev}

ReturnedTriggersOf(ev) == {id \in TriggersOf(ev) : disp[id].ret # "pending"}

\* the synchronous deliveries of ev to h so far
DeliveriesOf(ev, h) ==
    UNION {{<<id, i>> : i \in {j \in 1..Len(disp[id].dlv) :
                                 disp[id].dlv[j].h = h}} :
              id \in TriggersOf(ev)}

\* C12: a synchronous handler subscribed to an event and not unsubscribed
\* has been delivered the event once for each trigger of the event: at
\* least once for each call that has returned and at most once for each
\* call made, whatever the other threads and handlers do.
C12_DeliveriesMatchTriggers ==
    \A i \in Permanent :
        LET s == MutatingSubscriptions[i]
            n == Cardinality(DeliveriesOf(s.ev, s.h))
        IN
        /\ n >= Cardinality(ReturnedTriggersOf(s.ev))
        /\ n <= Cardinality(TriggersOf(s.ev))

\* the number of times h is in the list l
Count(l, h) == Cardinality({i \in 1..Len(l) : l[i] = h})

\* C16: no handler is twice in the same list of handlers of an event.
C16_NoDuplicateHandlers ==
    \A h \in Handlers :
        /\ \A ev \in DOMAIN sync_handlers : Count(sync_handlers[ev], h) <= 1
        /\ \A ev \in DOMAIN async_handlers : Count(async_handlers[ev], h) <= 1

\* the number of registrations of h in the list of ev in the map d
Registrations(d, ev, h) == Count(Get(d, ev), h)

\* n less one, when there is one
OneLess(n) == IF n > 0 THEN n - 1 ELSE 0

\* the thread t runs a statement of unsubscribe in this step
UnsubscribeStep(t) ==
    /\ Busy(t) /\ Top(t).kind = "unsubscribe" /\ exc[t] = "none"
    /\ stack'[t] # stack[t]

\* the step leaves every registration but those of (ev, h) as it was
OthersKept(ev, h) ==
    \A e \in (DOMAIN sync_handlers) \cup (DOMAIN async_handlers) \cup {ev},
       g \in Handlers :
        (e # ev \/ g # h) =>
            /\ Registrations(sync_handlers', e, g)
                   = Registrations(sync_handlers, e, g)
            /\ Registrations(async_handlers', e, g)
                   = Registrations(async_handlers, e, g)

\* what the statement at pc of unsubscribe(ev, h) removes: nsync and nasync
\* are the numbers of registrations it is to leave
UnsubscribeRemoves(ev, h, nsync, nasync) ==
    /\ Registrations(sync_handlers', ev, h) = nsync
    /\ Registrations(async_handlers', ev, h) = nasync
    /\ OthersKept(ev, h)

SameLists(d, e) ==
    \A ev \in (DOMAIN d) \cup (DOMAIN e) : Get(d, ev) = Get(e, ev)

\* the statement of unsubscribe the thread t runs in this step finds the
\* handler in neither list and fails: the first remove goes to the except
\* clause, the second one raises ValueError
UnsubscribeFails(t) ==
    /\ Top(t).pc = "sync" => Last(stack'[t]).pc = "except"
    /\ Top(t).pc = "except" => exc'[t] = "ValueError"

\* the thread t is in unsubscribe, before a statement that has removed
\* nothing, and the handler is registered in neither list of the event
NotSubscribed(t) ==
    /\ Top(t).pc \in {"sync", "except"}
    /\ Registrations(sync_handlers, Top(t).ev, Top(t).h) = 0
    /\ Registrations(async_handlers, Top(t).ev, Top(t).h) = 0

\* C14 as it is claimed: unsubscribe of a handler that is not subscribed to
\* the event, known or not, fails with ValueError and leaves the two maps
\* of handlers as they were.
C14_NotSubscribedMapsUnchanged ==
    [][\A t \in Threads :
          (UnsubscribeStep(t) /\ NotSubscribed(t)) =>
              /\ UnsubscribeFails(t)
              /\ sync_handlers' = sync_handlers
              /\ async_handlers' = async_handlers]_vars

\* C14: unsubscribe of a handler that is not subscribed to the event, known
\* or not, fails with ValueError and leaves the lists of handlers of every
\* event as they were (an event that had no entry in a map gets one, with
\* an empty list).
C14_NotSubscribedListsUnchanged ==
    [][\A t \in Threads :
          (UnsubscribeStep(t) /\ NotSubscribed(t)) =>
              /\ UnsubscribeFails(t)
              /\ SameLists(sync_handlers', sync_handlers)
              /\ SameLists(async_handlers', async_handlers)]_vars

\* the only call made so far, unsubscribe from an event nothing was
\* subscribed to, has failed with ValueError
C14_Witness ==
    \E t \in Clients :
        /\ opsLeft[1] + opsLeft[2] = MaxOps
        /\ "event42" \notin DOMAIN Subscribed(MutatingSubscriptions, "sync", FALSE)
        /\ lastRet[t] = [op |-> "unsubscribe", ev |-> "event42",
                         h |-> "handler1", x |-> "ValueError"]
        /\ ~Busy(t)
        /\ Get(sync_handlers, "event42") = <<>>
        /\ Get(async_handlers, "event42") = <<>>

\* the embedder has subscribed a handler to an event and, with its next
\* call, unsubscribed the handler from the event, and that call is over
RoundTripDone == roundTrip.phase = "unsubscribed" /\ ~Busy(roundTrip.t)

\* the lists of handlers of every event, in both maps, are those of before
\* the subscribe
RoundTripRestores ==
    /\ SameLists(sync_handlers, roundTrip.sync)
    /\ SameLists(async_handlers, roundTrip.async)

\* C15 as it is claimed: whatever the lists of handlers are, subscribe or
\* subscribe_async of a handler to an event followed by unsubscribe of the
\* handler from the event leaves the two lists of every event as before.
C15_RoundTripFromAnyMap == RoundTripDone => RoundTripRestores

\* C15: when the handler is registered to the event in neither list,
\* subscribe or subscribe_async of the handler to the event followed by
\* unsubscribe of the handler from the event returns normally and leaves
\* the two lists of every event as before.
C15_RoundTripWhenNotRegistered ==
    ( /\ RoundTripDone
      /\ Registrations(roundTrip.sync, roundTrip.ev, roundTrip.h) = 0
      /\ Registrations(roundTrip.async, roundTrip.ev, roundTrip.h) = 0 )
    => ( /\ RoundTripRestores
         /\ lastRet[roundTrip.t] = [op |-> "unsubscribe", ev |-> roundTrip.ev,
                                    h |-> roundTrip.h, x |-> "none"] )

\* handler1 was subscribed to event1, to which another handler was
\* subscribed in both modes, and unsubscribed: the lists are as before
C15_Witness ==
    /\ RoundTripDone
    /\ roundTrip.ev = "event1" /\ roundTrip.h = "handler1"
    /\ Get(roundTrip.sync, "event1") = <<"async_handler">>
    /\ Get(roundTrip.async, "event1") = <<"async_handler">>
    /\ clock = 3
    /\ RoundTripRestores

(***************************************************************************)
(* Further properties of the lifecycle verbs.                              *)
(***************************************************************************)
\* the calls of trigger the k-th call of a verb has made for the event
\* named name
TriggersOfCommand(k, name) ==
    {id \in DispatchIds : disp[id].cmd = k /\ disp[id].ev = name}

\* C19: when the method of the domain a verb calls fails, the verb fails
\* with RuntimeError; pre_V was triggered once, that trigger has returned
\* and its synchronous handler has seen pre_V, with the caller's keyword
\* arguments, before the method was called; post_V is never triggered for
\* that call, so nothing sees it.
C19_BackEndFailure ==
    \A k \in CommandIds :
        LET c == cmds[k] IN
        c.op = "libvirtError" =>
            /\ c.ret \in {"pending", "RuntimeError"}
            /\ c.ret = "pending" => exc[c.t] = "RuntimeError"
            /\ c.trace = SubSeq(C2_Sequence(c.verb, c.pay), 1, 2)
            /\ \E id \in TriggersOfCommand(k, C2_EventNames[c.verb].pre) :
                   /\ disp[id].ret = "none"
                   /\ DeliveredHandlers(disp[id]) = disp[id].snap
                   /\ disp[id].pay = c.pay
            /\ TriggersOfCommand(k, C2_EventNames[c.verb].post) = {}

\* restart, called with keyword arguments on a running domain, has failed
\* with RuntimeError after domain.reboot raised libvirtError
C19_Witness ==
    \E k \in CommandIds :
        /\ cmds[k].verb = "restart" /\ cmds[k].pay = "foo"
        /\ cmds[k].st = RUNNING
        /\ cmds[k].op = "libvirtError"
        /\ cmds[k].ret = "RuntimeError"
        /\ ~Busy(cmds[k].t)

\* the frame of the k-th call of a verb, while the call is running
FrameOfCommand(k) ==
    LET st == stack[cmds[k].t]
        i == CHOOSE i \in 1..Len(st) : st[i].kind = "command" /\ st[i].id = k
    IN st[i]

\* the k-th call of a verb is running
Running(k) ==
    \E i \in 1..Len(stack[cmds[k].t]) :
        /\ stack[cmds[k].t][i].kind = "command"
        /\ stack[cmds[k].t][i].id = k

Observers(d) ==
    {d.dlv[i].h : i \in 1..Len(d.dlv)} \cup {d.adlv[i] : i \in 1..Len(d.adlv)}

\* C18 as it is claimed: a handler, synchronous or asynchronous, that has
\* been called with post_V by a call of the verb V has been called before
\* with pre_V by the same call of the verb, with the same keyword arguments.
C18_PreObservedBeforePost ==
    \A k \in CommandIds :
        \A p \in TriggersOfCommand(k, C2_EventNames[cmds[k].verb].post) :
            \A h \in Observers(disp[p]) :
                \E q \in TriggersOfCommand(k, C2_EventNames[cmds[k].verb].pre) :
                    /\ h \in Observers(disp[q])
                    /\ disp[q].pay = disp[p].pay

\* C18: when a call of the verb V triggers post_V, its trigger of pre_V,
\* with the same keyword arguments, has returned: the synchronous handlers
\* of pre_V have all been called and have returned, and one thread has
\* been started for each asynchronous handler of pre_V; a call of V that
\* returns normally has triggered post_V.  So a synchronous handler called
\* with post_V was called with pre_V before.
C18_PreDispatchedBeforePost ==
    \A k \in CommandIds :
        LET post == TriggersOfCommand(k, C2_EventNames[cmds[k].verb].post)
            pre == TriggersOfCommand(k, C2_EventNames[cmds[k].verb].pre)
        IN
        /\ cmds[k].ret = "none" => post # {}
        /\ \A p \in post :
               \E q \in pre :
                   /\ q < p
                   /\ disp[q].ret = "none"
                   /\ disp[q].pay = disp[p].pay /\ disp[p].pay = cmds[k].pay
                   /\ DeliveredHandlers(disp[q]) = disp[q].snap
                   /\ \A i \in 1..Len(disp[q].dlv) : disp[q].dlv[i].x # "run"
                   /\ disp[q].nasync = Len(disp[q].asnap)
                   /\ \A i \in 1..Len(disp[p].dlv) :
                          disp[p].dlv[i].h \in
                              {disp[q].dlv[j].h : j \in 1..Len(disp[q].dlv)}

\* pause has returned; its synchronous handler was called with pre_pause and
\* then with post_pause; its asynchronous handler has been called with
\* post_pause and not yet with pre_pause
C18_Witness ==
    \E k \in CommandIds :
        /\ cmds[k].verb = "pause" /\ cmds[k].pay = "foo" /\ cmds[k].ret = "none"
        /\ \E q \in TriggersOfCommand(k, C2_EventNames["pause"].pre),
              p \in TriggersOfCommand(k, C2_EventNames["pause"].post) :
               /\ DeliveredHandlers(disp[q]) = <<"handler1">>
               /\ DeliveredHandlers(disp[p]) = <<"handler1">>
               /\ disp[p].adlv = <<"async_handler">>
               /\ disp[q].adlv = <<>>

\* the wait of the k-th call, a shutdown, ends in this step
WaitEnds(k) == cmds[k].wait = "none" /\ cmds'[k].wait # "none"

\* C21: shutdown(timeout=0) looks at the state of the domain once the
\* graceful shutdown is issued: when the domain is SHUTOFF then, the wait
\* ends well and post_shutdown is triggered; when it is not, the call fails
\* with RuntimeError.
C21_ZeroTimeout ==
    [][\A k \in CommandIds :
          ( /\ cmds[k].verb = "shutdown"
            /\ cmds[k].timeout = [given |-> TRUE, s |-> 0]
            /\ WaitEnds(k) ) =>
              IF domState = SHUTOFF
              THEN /\ cmds'[k].wait = "shutoff"
                   /\ exc'[cmds[k].t] = "none"
                   /\ \E id \in 1..Len(disp') :
                          /\ disp'[id].cmd = k
                          /\ disp'[id].ev = C2_EventNames["shutdown"].post
              ELSE /\ cmds'[k].wait = "timeout"
                   /\ exc'[cmds[k].t] = "RuntimeError"]_vars

(***************************************************************************)
(* Properties of the getters of the Context.                               *)
(***************************************************************************)
\* the embedder reads the getter in this step
GetterRead(name) == envOps' = envOps - 1 /\ envRet'.op = name

\* C22: reading hypervisor, storage_pool or network of a Context fails with
\* RuntimeError when the hypervisor connection is not alive, the storage
\* pool is not active or the network is not active
C22_GettersGuardLiveness ==
    [][\A name \in ContextGetters :
          (GetterRead(name) /\ ~IsAlive(name, world)) =>
              envRet'.exc.kind = "RuntimeError"]_vars

(***************************************************************************)
(* Further properties of the Environment and of its Resources.             *)
(***************************************************************************)
\* the deallocate in progress or just over follows a deallocate that ended,
\* with no allocate between the two
SecondDeallocate ==
    envCall.op \in {"deallocate", "exit"} /\ envCall.state = "deallocated"

\* C23: a deallocate that follows a deallocate finds neither hooks nor
\* context, calls no cleanup at all, so that the two calls together clean
\* each object once, and returns without an exception
C23_DeallocateIdempotent ==
    SecondDeallocate =>
        /\ envCall.hooks = <<>> /\ envCall.context = "None"
        /\ cleanLog = <<>>
        /\ envRet.op = "deallocate" => envRet.exc = NoExc
        /\ envPc = "idle" =>
               /\ envState = "deallocated"
               /\ env_context = NoneContext
               /\ env_hookmanager = NoneManager

\* a with statement allocated a QEMU context and two hooks and deallocated
\* them on exit; the deallocate called after it has returned
C23_Witness ==
    /\ SecondDeallocate /\ envPc = "idle"
    /\ scope.entered /\ scope.at = "out"
    /\ scenario.factory = "QEMU"
    /\ scenario.hooks = <<"TestHook", "WrongHook">>
    /\ created # {}
    /\ cleanLog = <<>>
    /\ envRet = Ret("deallocate", NoExc, "None", "deallocated")

\* the handles a Resources object holds
HandlesOf(r) ==
    {h \in {"hypervisor", "domain", "network", "storage_pool"} : r[h]}

\* the handles the configuration requires of a Resources of the class
RequiredHandles(class, cfg) ==
    {"hypervisor", "domain"}
        \cup (IF cfg.network \/ cfg.attached THEN {"network"} ELSE {})
        \cup (IF cfg.clone THEN {"storage_pool"} ELSE {})

\* the context factory runs in this step
FactoryStep ==
    envPc = "factory" /\ envPc' # "factory" /\ scenario.configuration = "dict"

\* C24: when the allocation of QEMUResources fails and deallocate has
\* rolled it back, the Resources hold no handle and the world holds nothing
\* it did not hold before the allocation; when the allocation succeeds the
\* Resources hold every handle their configuration requires
C24_AllOrNothing ==
    [][(FactoryStep /\ scenario.factory = "QEMU") =>
          IF factoryLog'.allocExc # NoExc
          THEN factoryLog'.deallocated =>
                   /\ HandlesOf(factoryLog'.res) = {}
                   /\ world' \subseteq world
          ELSE RequiredHandles(scenario.factory, scenario.cfg)
                   \subseteq HandlesOf(env_context'.res)]_vars

\* the release calls of the claim: all of them but the reading of the
\* description of the pool, which is no release of anything
ListedReleases == ReleaseSteps \ {"xmldesc"}

HookBuilt ==
    /\ envPc = "load_hooks"
    /\ Len(env_hookmanager'.hooks) = Len(env_hookmanager.hooks) + 1

\* C26: the configuration a hook is built with has the keys of the
\* configuration of its entry and the keys of the shared configuration; a
\* key of the entry has the value of the entry, any other key the value of
\* the shared configuration
C26_EntryConfigurationWins ==
    [][HookBuilt =>
          LET own == scenario.hooks[envCall.i].configuration
              shared == scenario.configuration
              built == Last(env_hookmanager'.hooks).configuration
          IN /\ DOMAIN built = DOMAIN own \cup DOMAIN shared
             /\ \A k \in DOMAIN own : built[k] = own[k]
             /\ \A k \in DOMAIN shared \ DOMAIN own : built[k] = shared[k]]_vars

\* the classes of the hooks of a list, in order
ClassesOf(hooks) == [i \in 1..Len(hooks) |-> hooks[i].class]

\* the names of the entries before the i-th that name a Hook class whose
\* constructor returns, in the order of the configuration
RECURSIVE Constructed(_, _)
Constructed(entries, i) ==
    IF i = 0 THEN <<>>
    ELSE IF entries[i].name \in HookClasses
         THEN Append(Constructed(entries, i - 1), entries[i].name)
         ELSE Constructed(entries, i - 1)

\* every entry of the configuration is a dictionary
AllDictionaries ==
    \A i \in 1..Len(scenario.hooks) : scenario.hooks[i].name # "nodict"

\* the last call on the manager is a load_hooks that is over
Loaded == envPc = "idle" /\ envCall.op = "load_hooks"

\* C27: load_hooks skips an entry whose class is not found, whose class is
\* no Hook, which has no name or whose constructor raises, and raises
\* nothing: when it returns the manager holds the hooks it held before and,
\* after them, one hook for each of the other entries, in the order of the
\* configuration
C27_LoadHooksFailSoft ==
    /\ (envPc = "load_hooks" /\ AllDictionaries) =>
           ClassesOf(env_hookmanager.hooks) =
               ClassesOf(envCall.hooks)
                   \o Constructed(scenario.hooks, envCall.i - 1)
    /\ (Loaded /\ AllDictionaries) =>
           /\ envRet = Ret("load_hooks", NoExc, "None", "new")
           /\ ClassesOf(env_hookmanager.hooks) =
                  ClassesOf(envCall.hooks)
                      \o Constructed(scenario.hooks, Len(scenario.hooks))

\* an entry whose constructor raises was skipped and the entry behind it
\* loaded
C27_Witness ==
    /\ Loaded
    /\ Len(scenario.hooks) = 2
    /\ scenario.hooks[1].name = "raising"
    /\ scenario.hooks[2].name = "TestHook"
    /\ envRet = Ret("load_hooks", NoExc, "None", "new")
    /\ ClassesOf(env_hookmanager.hooks) = <<"TestHook">>
    /\ env_hookmanager.hooks[1].entry = 2

\* the last call on the manager is a cleanup that is over
CleanedUp == envPc = "idle" /\ envCall.op = "cleanup"

\* C28: cleanup calls cleanup on every hook the manager holds, in order and
\* once each, whatever the cleanup of a hook raises; it returns normally and
\* the manager holds no hook afterwards
C28_CleanupSweepsAll ==
    /\ envPc = "cleanup" =>
           /\ Len(cleanLog) = envCall.i - 1
           /\ \A i \in 1..Len(cleanLog) : cleanLog[i].obj = envCall.hooks[i]
    /\ CleanedUp =>
           /\ envRet.op = "cleanup" => envRet.exc = NoExc
           /\ [i \in 1..Len(cleanLog) |-> cleanLog[i].obj] = envCall.hooks
           /\ env_hookmanager.hooks = <<>>

\* the cleanup of the first hook raised KeyError, the one of the second
\* NotImplementedError: both were called and cleanup returned
C28_Witness ==
    /\ CleanedUp
    /\ Len(envCall.hooks) = 2
    /\ envRet = Ret("cleanup", NoExc, "None", "new")
    /\ cleanLog = << Cleaned(envCall.hooks[1], Exc("KeyError", "cleanup"), {}),
                     Cleaned(envCall.hooks[2],
                             Exc("NotImplementedError", "cleanup"), {}) >>
    /\ env_hookmanager.hooks = <<>>

(***************************************************************************)
(* Properties of network.create.                                           *)
(***************************************************************************)
\* C29: a call of network.create asks the hypervisor to create the network
\* at most MAX_ATTEMPTS times, and when that many attempts have failed it
\* has raised RuntimeError
C29_AtMostMaxAttempts ==
    envCall.op = "create" =>
        /\ envCall.attempts <= scenario.max_attempts
        /\ envCall.counter >= scenario.max_attempts =>
               /\ envPc = "idle"
               /\ envRet = Ret("create", Exc("RuntimeError", "create"), "None",
                               "new")

(***************************************************************************)
(* Properties of the image providers.                                      *)
(***************************************************************************)
\* the images other than the target whose file is in the directory
Siblings(target) == {f.id : f \in {g \in world : ~g.part /\ g.id # target}}

\* a resolution that finds the '.part' file of its target ends in this step
ResolvedWhileDownloading ==
    /\ envOps' = envOps - 1
    /\ envCall'.op = "image"
    /\ File(envCall'.target, TRUE) \in world

\* C30: a resolution that finds the '.part' file of its target starts no
\* download and writes no file; it returns the newest of the other files of
\* the image in the directory, or raises FileNotFoundError when there is
\* none
C30_NoDownloadWhilePartExists ==
    [][ResolvedWhileDownloading =>
          LET target == envCall'.target IN
          /\ envCall'.downloads = 0
          /\ world' = world
          /\ IF Siblings(target) = {}
             THEN envRet'.exc.kind = "FileNotFoundError"
             ELSE /\ envRet'.exc = NoExc
                  /\ envRet'.value \in Siblings(target)
                  /\ \A i \in Siblings(target) : i <= envRet'.value]_vars

\* a resolution that downloaded its target ends in this step
Downloaded ==
    /\ envOps' = envOps - 1
    /\ envCall'.op = "image"
    /\ envCall'.downloads = 1

\* C31: when the checksum of a downloaded file does not match, the '.part'
\* file is removed, RuntimeError is raised and the target is not created;
\* when it matches the '.part' file has become the target, which is returned
C31_ChecksumMismatch ==
    [][Downloaded =>
          LET target == envCall'.target IN
          /\ File(target, FALSE) \notin world
          /\ File(target, TRUE) \notin world'
          /\ envCall'.outcome = "checksum" =>
                 /\ envRet'.exc = Exc("RuntimeError", "checksum")
                 /\ world' = world
          /\ envCall'.outcome = "ok" =>
                 /\ envRet'.exc = NoExc /\ envRet'.value = target
                 /\ world' = world \cup {File(target, FALSE)}
          /\ File(target, FALSE) \in world' => envCall'.outcome = "ok"]_vars

\* the checksum of a download did not match: RuntimeError was raised and
\* neither the target nor its '.part' file is in the directory
C31_Witness ==
    /\ envCall.op = "image" /\ envCall.downloads = 1
    /\ envCall.outcome = "checksum"
    /\ envRet = Ret("image", Exc("RuntimeError", "checksum"), 0, "new")
    /\ File(envCall.target, FALSE) \notin world
    /\ File(envCall.target, TRUE) \notin world

\* C32: verify_etag accepts a file of one chunk exactly when the tag is the
\* MD5 of the contents of the file, and a file of more than one chunk
\* exactly when the tag is the MD5 of the digests of its chunks followed by
\* '-' and the number of chunks
C32_EtagForms ==
    envCall.op = "verify_etag" =>
        LET chunks == scenario.chunks IN
        /\ Len(chunks) = 1 =>
               (envRet.value <=>
                    scenario.etag = HexDigest(MD5(Concat(chunks))))
        /\ Len(chunks) > 1 =>
               (envRet.value <=>
                    scenario.etag =
                        MultipartTag(HexDigest(MD5(DigestStream(chunks))),
                                     Len(chunks)))


\* the threads that run a handler started by asynchronous()
AsyncRunning ==
    {t \in Threads : \E i \in 1..Len(stack[t]) : stack[t][i].mode = "async"}

\* the resources of the context were deallocated by the call in progress,
\* or by the one that returned
ResourcesReleased ==
    envCall.op = "deallocate" /\ (envPc = "drop" \/ envState = "deallocated")

\* C33: Environment teardown lets the asynchronous handlers that are still
\* running proceed to completion and only then deallocates the resources:
\* no asynchronous handler is executing at or after the moment the
\* resources are deallocated
C33_TeardownAfterAsyncHandlers == ResourcesReleased => AsyncRunning = {}


\* the shared folders the allocation made that are still there
LeftDirectories == created \cap world

\* C34: every bind-mount directory source_path/<identifier> the LXC driver
\* made on allocation, for the one filesystem descriptor or for each of a
\* list, is removed on deallocation
C34_MountDirectoriesRemoved ==
    (envRet.op \in {"deallocate", "cleanup"} /\ "rmtree" \notin Last(cleanLog).failed)
        => LeftDirectories = {}


\* the place of x in the log
Place(log, x) == CHOOSE i \in 1..Len(log) : log[i] = x

Logged(log) == {log[i] : i \in 1..Len(log)}

\* of the objects in s, none is released before one acquired after it
ReleasedInReverse(s) ==
    \A i, j \in 1..Len(factoryLog) :
        (/\ i < j
         /\ {factoryLog[i], factoryLog[j]} \subseteq s \cap Logged(cleanLog))
            => Place(cleanLog, factoryLog[j]) < Place(cleanLog, factoryLog[i])

\* allocate acquires in the order hypervisor connection, storage pool,
\* network, disk, domain
AcquiredInOrder == factoryLog = InOrder(AcquireOrder, Logged(factoryLog))

\* C35 as stated: QEMU allocate acquires in the order hypervisor connection,
\* storage pool, network, disk, domain, and deallocate never releases a
\* resource before a resource acquired after it
C35_ReverseOrder == AcquiredInOrder /\ ReleasedInReverse(Logged(AcquireOrder))

\* the objects deallocate releases by a call of their own
Handles == {"connection", "pool", "network", "domain"}

\* C35, amended: allocate acquires in the order hypervisor connection,
\* storage pool, network, disk, domain; deallocate releases the domain, the
\* network, the storage pool and the connection in that order, none before
\* one acquired after it, and the cloned disk is deleted with its pool,
\* after the network that was acquired before it
C35_HandlesReverseOrder ==
    /\ AcquiredInOrder
    /\ ReleasedInReverse(Handles)
    /\ cleanLog = InOrder(ReleaseOrder, Logged(cleanLog))

\* a deallocate has released a domain, a network, a cloned disk, its pool
\* and the connection
C35_Witness ==
    /\ envRet.op = "deallocate" /\ envPc = "idle"
    /\ cleanLog = ReleaseOrder
    /\ factoryLog = AcquireOrder


\* a deallocate has returned
DeallocateDone == envPc = "idle" /\ envRet.op = "deallocate"

\* C37: QEMUResources.deallocate leaves untouched what the allocation did
\* not create: a network is destroyed only when a 'network' section was
\* configured, a storage pool is deleted only when the cloning of the disk
\* was configured, a network or a pool that was looked up is never
\* destroyed, and the domain is still deleted and the connection closed
C37_DeallocateOnlyCreated ==
    /\ "network" \in Logged(cleanLog) => scenario.network
    /\ "pool" \in Logged(cleanLog) => scenario.clone
    /\ created \subseteq world
    /\ (DeallocateDone /\ envCall.relFail = {})
          => (world \cap {"domain", "connection"} = {})

\* a deallocate that held a network and a pool that were looked up has
\* deleted the domain and closed the connection
C37_Witness ==
    /\ DeallocateDone
    /\ env_context.network /\ env_context.storage_pool
    /\ ~scenario.network /\ ~scenario.clone
    /\ created = {"network", "pool"}
    /\ cleanLog = <<"domain", "connection">>


\* the resolvers that are downloading, verifying, renaming or removing the
\* '.part' file of the target
Downloaders == {p \in Resolvers : envPc[p] \in Downloading}

\* C36: of two resolver processes that resolve the same image into the same
\* target at the same time at most one downloads it: never do two of them
\* write the '.part' file, nor does one verify, rename or remove a '.part'
\* file the other is still writing
C36_OneDownloader == Cardinality(Downloaders) <= 1


\* the k-th call is a shutdown without a timeout
ShutdownForever(k) ==
    k \in CommandIds /\ cmds[k].verb = "shutdown" /\ cmds[k].timeout = NoTimeout

\* the k-th call is in _wait_for_shutdown
Waiting(k) ==
    \E t \in Threads :
        Busy(t) /\ Top(t).kind = "command" /\ Top(t).id = k /\ Top(t).pc = "wait"

\* post_shutdown of the k-th call was triggered
PostShutdown(k) ==
    \E id \in 1..Len(disp) :
        disp[id].cmd = k /\ disp[id].ev = C2_EventNames["shutdown"].post

Executes(k) == cmds[k].op = "none" /\ cmds'[k].op # "none"

\* C39: with the verbs called from several threads on one Context, the
\* operation of the back-end is invoked only while the domain is in a state
\* in which the transition map allows the verb: no state change of another
\* call comes between the check of the state and the call to the back-end
C39_CommandInAllowedState ==
    [][\A k \in CommandIds :
          Executes(k) => In(cmds[k].verb, STATES_MAP[domState])]_vars


\* the factory returns a Context in this step and allocate stores it
FactoryReturns == envPc = "factory" /\ envPc' = "hooks"

\* C40: after any sequence of allocate and deallocate that ends with
\* deallocate, cleanup was invoked exactly once on every Context the factory
\* returned: no Context is dropped without cleanup, be it by a second
\* allocate in a row or by an allocate that failed after the factory
\* returned.  The Environment holds one Context: the one a factory call
\* returns must not replace one that was not cleaned, and deallocate
\* forgets the one it cleaned.
C40_NoContextDropped ==
    [][/\ FactoryReturns => env_context = NoneContext
       /\ (envPc = "drop" /\ envPc' = "idle") => env_context' = NoneContext]_vars

====
